---- MODULE Spec2Model ----
(***************************************************************************)
(* Model of the SAS environment benchmark (argx-vgaddu/kush):              *)
(*   - SASEnvironmentBenchmark (sas_environment_benchmark.py): the setup   *)
(*     file, its backup, the trials and the three driver tasks of the      *)
(*     thread pool;                                                        *)
(*   - SASViyaAuth (sas_auth.py, sas_base_casl_comparision.py): the token  *)
(*     dictionary, the token file and get_valid_access_token;              *)
(*   - one remote driver's requests over wall-clock time with the access   *)
(*     token that run_all_benchmarks obtained at its start.                *)
(* Time is counted in minutes.                                             *)
(***************************************************************************)
EXTENDS Integers, Sequences, FiniteSets, TLC

VARIABLES
    \* ---- sas_environment_benchmark.py: SASEnvironmentBenchmark ----
    linesep,        \* os.linesep of the platform: "LF" or "CRLF"
    setup_file,     \* bytes of config/setup.sas (sequence of characters/words)
    backup_file,    \* bytes of config/setup.sas.backup, or NoFile
    setup_at_call,  \* history: bytes of config/setup.sas when run_all_benchmarks was called
    n_values,       \* self.n_values
    pc,             \* position of the main thread in run_all_benchmarks
    trial,          \* index (1-based) of the current entry of n_values
    exc,            \* exception in flight in the main thread ("none" if none)
    client,         \* self.client: "none" or "ready"
    setup_code,     \* local setup_code of run_iteration_benchmark (a str)
    task,           \* the Future/driver task of each environment
    times,          \* local results dict of run_iteration_benchmark
    results,        \* self.results: environment -> list
    n_updates,      \* history: number of writes of the setup file by update_iteration_count
    n_submitted,    \* history: number of executor.submit calls
    \* ---- SASViyaAuth ----
    now,            \* wall clock, minutes
    tokens,         \* self.tokens: a dict (function from present keys to values)
    token_file,     \* data/sas_tokens.json: NoFile or a dict
    call,           \* per caller thread: the call it makes on the SASViyaAuth instance
    issued,         \* number of token sets the token endpoint has issued
    \* ---- one remote driver over wall-clock time ----
    session,        \* the client's "Authorization: Bearer" token and that token's expiry
    rpc,            \* position of the run: get_sas_tokens, then the driver's requests
    rtrial,         \* index of the trial the driver runs in
    rstart,         \* start_time of the driver call
    last_req,       \* history: the last request sent with the client's session
    gst,            \* history: the path the run's get_sas_tokens call took
    \* ---- a status poll of SASJobExecutionClient ----
    pproc,          \* the method that runs: get_job_state, wait_for_job_completion, driver
    ppc,            \* its position
    pep,            \* index of the endpoint pattern tried next
    pclock,         \* time.time() - start_time, in sleeps
    plog,           \* history: the answers of the current poll attempt, in order
    pextra,         \* history: requests sent after the deadline
    pret,           \* the value returned
    psub,           \* history: time the submission before the poll loop took
    pslept,         \* history: time slept in the poll loop
    pelapsed,       \* the elapsed time reported with the value returned
    \* ---- compute-context resolution ----
    contexts,       \* the items the compute service lists
    ctx_cache,      \* client._compute_context_id
    cpc,            \* position of each remote driver in submit_job
    cres,           \* the context id each call resolved to
    cwrites,        \* history: the drivers that wrote client._compute_context_id
    csub,           \* history: what each submit_job call of a caller came to, in order
    cqueries,       \* history: GET requests for the contexts made in each caller's calls
    \* ---- the comparison of the elapsed times of one trial ----
    aprog,          \* the code that compares: "benchmark" or "comparison"
    apc,            \* its position
    aitems,         \* the (name, time) pairs it works on, in their order
    afastest,       \* the pair it names as fastest, if any
    aslow,          \* the percentage it prints for each other backend
    \* ---- the local SAS installation ----
    sas_present,    \* the candidate paths for which os.path.exists is true
    sas_on_path,    \* whether the command 'sas' resolves through the search path
    sas_exe         \* local sas_exe of run_base_local

orchVars == <<linesep, setup_file, backup_file, setup_at_call, n_values, pc, trial,
              exc, client, setup_code, task, times, results, n_updates, n_submitted>>
authVars == <<now, tokens, token_file, call, issued>>
runVars == <<session, rpc, rtrial, rstart, last_req, gst>>
pollVars == <<pproc, ppc, pep, pclock, plog, pextra, pret, psub, pslept, pelapsed>>
ctxVars == <<contexts, ctx_cache, cpc, cres, cwrites, csub, cqueries>>
anaVars == <<aprog, apc, aitems, afastest, aslow>>
localVars == <<sas_present, sas_on_path, sas_exe>>
restVars == <<pollVars, ctxVars, anaVars, localVars>>
vars == <<orchVars, authVars, runVars, restVars>>
nonOrchVars == <<authVars, runVars, restVars>>
nonAuthVars == <<orchVars, runVars, restVars>>

-----------------------------------------------------------------------------
(* Bounds of the model *)

\* elapsed seconds a successful driver can report: 1..MaxElapsed
MaxElapsed == 1

\* the clock stops at minute MaxNow
MaxNow == 3

\* token sets the token endpoint issues at most
MaxIssued == 2

-----------------------------------------------------------------------------
(* Text files: Python's text mode (open(..., 'r') / open(..., 'w'))        *)

NoFile == <<"<absent>">>

IsSpace(t) == t \in {" ", "LF", "CR"}
IsDigit(t) == t \in {"0", "1", "2", "3", "4", "5", "6", "7", "8", "9"}

\* open(f, 'r').read(): universal newlines, "\r\n" and "\r" become "\n"
RECURSIVE ReadText(_)
ReadText(b) ==
    IF b = <<>> THEN <<>>
    ELSE IF Head(b) = "CR"
         THEN IF Len(b) >= 2 /\ b[2] = "LF"
              THEN <<"LF">> \o ReadText(SubSeq(b, 3, Len(b)))
              ELSE <<"LF">> \o ReadText(Tail(b))
         ELSE <<Head(b)>> \o ReadText(Tail(b))

\* open(f, 'w').write(s): every "\n" is written as os.linesep
RECURSIVE WriteText(_, _)
WriteText(s, sep) ==
    IF s = <<>> THEN <<>>
    ELSE (IF Head(s) = "LF" /\ sep = "CRLF" THEN <<"CR", "LF">> ELSE <<Head(s)>>)
         \o WriteText(Tail(s), sep)

\* str(new_iter): decimal digits of a natural number
DigitChars == <<"0", "1", "2", "3", "4", "5", "6", "7", "8", "9">>
RECURSIVE Str(_)
Str(k) == IF k < 10 THEN <<DigitChars[k + 1]>>
          ELSE Str(k \div 10) \o <<DigitChars[(k % 10) + 1]>>

RECURSIVE Pow10(_)
Pow10(n) == IF n = 0 THEN 1 ELSE 10 * Pow10(n - 1)

-----------------------------------------------------------------------------
\* re.sub(pattern, replacement, content) of update_iteration_count, with
\*   pattern     = %let, one or more spaces, iter, spaces, =, spaces (group 1),
\*                 one or more digits, then spaces and ; (group 2)
\*   replacement = group 1, str(new_iter), group 2

RECURSIVE SkipSpaces(_, _)
SkipSpaces(s, i) == IF i <= Len(s) /\ IsSpace(s[i]) THEN SkipSpaces(s, i + 1) ELSE i

RECURSIVE SkipDigits(_, _)
SkipDigits(s, i) == IF i <= Len(s) /\ IsDigit(s[i]) THEN SkipDigits(s, i + 1) ELSE i

Is(s, i, t) == i <= Len(s) /\ s[i] = t

\* the match of the pattern that starts at position i: [ok, d1, d2, end], where
\* s[d1..d2-1] are the digits and end is the first position after the match
MatchAt(s, i) ==
    LET j1 == SkipSpaces(s, i + 1)
        j2 == SkipSpaces(s, j1 + 1)
        j3 == SkipSpaces(s, j2 + 1)
        d2 == SkipDigits(s, j3)
        j4 == SkipSpaces(s, d2)
    IN  IF /\ Is(s, i, "%let") /\ j1 > i + 1
           /\ Is(s, j1, "iter")
           /\ Is(s, j2, "=")
           /\ d2 > j3
           /\ Is(s, j4, ";")
        THEN [ok |-> TRUE, d1 |-> j3, d2 |-> d2, end |-> j4 + 1]
        ELSE [ok |-> FALSE, d1 |-> 0, d2 |-> 0, end |-> 0]

RECURSIVE SubFrom(_, _, _)
SubFrom(s, i, digits) ==
    IF i > Len(s) THEN <<>>
    ELSE LET m == MatchAt(s, i)
         IN  IF m.ok
             THEN SubSeq(s, i, m.d1 - 1) \o digits \o SubSeq(s, m.d2, m.end - 1)
                  \o SubFrom(s, m.end, digits)
             ELSE <<s[i]>> \o SubFrom(s, i + 1, digits)

\* variant: the result of re.sub is dropped and the content read is written back
ReSubKeepsContent(s, new_iter) == s

\* variant: the count is written with a sign, which \d+ does not match
ReSubSigned(s, new_iter) == SubFrom(s, 1, <<"+">> \o Str(new_iter))

ReSub(s, new_iter) == SubFrom(s, 1, Str(new_iter))

\* update_iteration_count(new_iter) on the bytes of config/setup.sas, with no
\* OSError: read in text mode, re.sub, write in text mode
UpdatedFile(b, new_iter, sep) == WriteText(ReSub(ReadText(b), new_iter), sep)

-----------------------------------------------------------------------------
(* SASEnvironmentBenchmark: values                                         *)

\* self.environments, also the order of the three executor.submit calls
Environments == <<"CASL_CAS", "BASE_VIYA", "BASE_LOCAL">>
Envs == {Environments[i] : i \in 1..Len(Environments)}
Remote == {"CASL_CAS", "BASE_VIYA"}

\* ThreadPoolExecutor(max_workers=3)
MaxWorkers == 3

\* a driver's return value: None, or an elapsed time
NoneVal == [some |-> FALSE, v |-> 0]
Some(x) == [some |-> TRUE, v |-> x]

\* a Future of the pool and the driver call it runs
IdleTask ==
    [pc |-> "idle", trial |-> 0, outcome |-> "none", ret |-> NoneVal, raised |-> FALSE,
     cfg |-> <<>>]
Active(t) == t.pc \in {"queued", "running", "polling", "proc"}

\* dict.get(key): None when the key is missing
DictGet(d, k) == IF k \in DOMAIN d THEN d[k] ELSE NoneVal

\* contents of config/setup.sas the run can start from
AssignLine == <<"%let", " ", "iter", " ", "=", " ", "5", ";">>
SetupLF == <<"x", "LF">> \o AssignLine \o <<"LF">>
SetupCRLF == <<"x", "CR", "LF">> \o AssignLine \o <<"CR", "LF">>
SetupContents == {SetupLF, SetupCRLF}

\* n_values lists of the runs (test_benchmark.py runs [0, 1])
NValuesInputs == {<<>>, <<0, 1>>, <<1, 0>>}

\* variant: the counts grow linearly with n
IterationCountLinear(k) == 10 * n_values[k]

\* self.iteration_counts = [10**n for n in self.n_values]
IterationCount(k) == Pow10(n_values[k])

-----------------------------------------------------------------------------
(* SASEnvironmentBenchmark.run_all_benchmarks, main thread                 *)

\* backup_setup_file(), first statement of the try block: the backup is
\* written, or reading config/setup.sas raises OSError and no backup is made
BackupSetupFile ==
    /\ pc = "call"
    /\ \/ /\ backup_file' = WriteText(ReadText(setup_file), linesep)
          /\ pc' = "auth"
          /\ UNCHANGED exc
       \/ /\ exc' = "io"
          /\ pc' = "shutdown"
          /\ UNCHANGED backup_file
    /\ UNCHANGED <<linesep, setup_file, setup_at_call, n_values, trial, client,
                   setup_code, task, times, results, n_updates, n_submitted>>
    /\ UNCHANGED nonOrchVars

\* head of the for loop over zip(self.n_values, self.iteration_counts)
LoopTarget(k) == IF k <= Len(n_values) THEN "update" ELSE "shutdown"

\* variant: the exception of get_sas_tokens is swallowed and the loop is entered
GetSasTokensSwallowed ==
    /\ exc' = "auth"
    /\ pc' = LoopTarget(trial)
    /\ UNCHANGED client

\* get_sas_tokens() raised (or tokens['access_token'] did): the exception leaves the try block
GetSasTokensRaises ==
    /\ exc' = "auth"
    /\ pc' = "shutdown"
    /\ UNCHANGED client

\* tokens = get_sas_tokens(); self.client = SASJobExecutionClient(base_url, access_token)
GetSasTokens ==
    /\ pc = "auth"
    /\ \/ /\ client' = "ready"
          /\ pc' = LoopTarget(trial)
          /\ UNCHANGED exc
       \/ GetSasTokensRaises
    /\ UNCHANGED <<linesep, setup_file, backup_file, setup_at_call, n_values, trial,
                   setup_code, task, times, results, n_updates, n_submitted>>
    /\ UNCHANGED nonOrchVars

\* update_iteration_count, up to open(self.setup_file, 'w'), which truncates the file;
\* setup_code holds new_content
UpdateIterationCount ==
    /\ pc = "update"
    /\ setup_code' = ReSub(ReadText(setup_file), IterationCount(trial))
    /\ setup_file' = <<>>
    /\ n_updates' = n_updates + 1
    /\ pc' = "write"
    /\ UNCHANGED <<linesep, backup_file, setup_at_call, n_values, trial, exc, client,
                   task, times, results, n_submitted>>
    /\ UNCHANGED nonOrchVars

\* update_iteration_count: f.write(new_content) and return, or the write raises OSError
WriteSetupFile ==
    /\ pc = "write"
    /\ \/ /\ setup_file' = WriteText(setup_code, linesep)
          /\ pc' = "submit"
          /\ UNCHANGED exc
       \/ /\ exc' = "io"
          /\ pc' = "shutdown"
          /\ UNCHANGED setup_file
    /\ UNCHANGED <<linesep, backup_file, setup_at_call, n_values, trial, client,
                   setup_code, task, times, results, n_updates, n_submitted>>
    /\ UNCHANGED nonOrchVars

\* variant: the futures dict lacks the BASE_LOCAL entry
NotSubmittedRemoteOnly ==
    {i \in 1..Len(Environments) : Environments[i] \in Remote /\ task[Environments[i]].trial # trial}

\* the environments whose task of the current trial is not submitted yet
NotSubmitted == {i \in 1..Len(Environments) : task[Environments[i]].trial # trial}

\* run_iteration_benchmark: the next self.executor.submit(...) of the futures dict;
\* after the third one, results = {}
SubmitTask ==
    /\ pc = "submit"
    /\ NotSubmitted # {}
    /\ LET i == CHOOSE j \in NotSubmitted : \A k \in NotSubmitted : j <= k
           e == Environments[i]
       IN  /\ task' = [task EXCEPT ![e] =
                          [pc |-> "queued", trial |-> trial, outcome |-> "none",
                           ret |-> NoneVal, raised |-> FALSE,
                           cfg |-> IF e \in Remote THEN setup_code ELSE <<>>]]
           /\ IF NotSubmitted = {i}
              THEN pc' = "collect" /\ times' = <<>>
              ELSE pc' = "submit" /\ UNCHANGED times
    /\ n_submitted' = n_submitted + 1
    /\ UNCHANGED <<linesep, setup_file, backup_file, setup_at_call, n_values, trial,
                   exc, client, setup_code, results, n_updates>>
    /\ UNCHANGED nonOrchVars

\* variant: a failed driver voids the values collected after it
CollectedValueAllOrNothing(e) ==
    IF \E x \in Envs : task[x].pc = "done" /\ task[x].outcome # "completed"
    THEN NoneVal
    ELSE task[e].ret

\* the value results[env_name] gets for a completed future: future.result(), or
\* None in the except clause when the driver call raised
CollectedValue(e) == IF task[e].raised THEN NoneVal ELSE task[e].ret

\* variant: the loop is left at the first completed future
CollectDoneFirst(collected) == collected # {}

\* the loop over as_completed(futures) is left when every future was yielded
CollectDone(collected) == collected = Envs

\* for future in as_completed(futures): results[env_name] = future.result()
Collect(e) ==
    /\ pc = "collect"
    /\ task[e].pc = "done"
    /\ e \notin DOMAIN times
    /\ times' = [x \in DOMAIN times \cup {e} |->
                    IF x = e THEN CollectedValue(e) ELSE times[x]]
    /\ pc' = IF CollectDone(DOMAIN times \cup {e}) THEN "store" ELSE "collect"
    /\ UNCHANGED <<linesep, setup_file, backup_file, setup_at_call, n_values, trial,
                   exc, client, setup_code, task, results, n_updates, n_submitted>>
    /\ UNCHANGED nonOrchVars

\* KeyboardInterrupt while the main thread waits in as_completed: the frame of
\* run_iteration_benchmark (its results dict) is left, the tasks keep running
Interrupt ==
    /\ pc = "collect"
    /\ exc' = "interrupt"
    /\ pc' = "shutdown"
    /\ times' = <<>>
    /\ UNCHANGED <<linesep, setup_file, backup_file, setup_at_call, n_values, trial,
                   client, setup_code, task, results, n_updates, n_submitted>>
    /\ UNCHANGED nonOrchVars

\* for env in self.environments: self.results[env].append(times.get(env));
\* the futures of the trial are dropped
StoreResults ==
    /\ pc = "store"
    /\ results' = [e \in Envs |-> Append(results[e], DictGet(times, e))]
    /\ task' = [e \in Envs |-> IF task[e].pc = "done" THEN IdleTask ELSE task[e]]
    /\ pc' = "save"
    /\ UNCHANGED <<linesep, setup_file, backup_file, setup_at_call, n_values, trial,
                   exc, client, setup_code, times, n_updates, n_submitted>>
    /\ UNCHANGED nonOrchVars

\* self.save_results() and the pause before the next trial; save_results raises
\* OSError when a results file cannot be written
SaveResults ==
    /\ pc = "save"
    /\ \/ /\ trial' = trial + 1
          /\ pc' = LoopTarget(trial + 1)
          /\ UNCHANGED exc
       \/ /\ exc' = "io"
          /\ pc' = "shutdown"
          /\ UNCHANGED trial
    /\ UNCHANGED <<linesep, setup_file, backup_file, setup_at_call, n_values, client,
                   setup_code, task, times, results, n_updates, n_submitted>>
    /\ UNCHANGED nonOrchVars

\* variant: executor.shutdown(wait=False)
ShutdownReturnsAtOnce == TRUE

\* executor.shutdown(wait=True) returns when no submitted task is pending or running
ShutdownReturns == \A e \in Envs : ~Active(task[e])

\* finally: self.executor.shutdown(wait=True); the worker threads are joined and
\* the finished futures are not looked at again
Shutdown ==
    /\ pc = "shutdown"
    /\ ShutdownReturns
    /\ pc' = "restore"
    /\ task' = [e \in Envs |-> IF task[e].pc = "done" THEN IdleTask ELSE task[e]]
    /\ UNCHANGED <<linesep, setup_file, backup_file, setup_at_call, n_values, trial,
                   exc, client, setup_code, times, results, n_updates, n_submitted>>
    /\ UNCHANGED nonOrchVars

\* finally: self.restore_setup_file(); then the function returns or re-raises
\* variant: restore_setup_file without os.remove(self.backup_file)
RestoredFilesKeepsBackup(setup, backup, sep) ==
    IF backup # NoFile
    THEN [setup |-> WriteText(ReadText(backup), sep), backup |-> backup]
    ELSE [setup |-> setup, backup |-> backup]

\* restore_setup_file on the two files: "if os.path.exists(self.backup_file)",
\* the backup is read, written over config/setup.sas and removed
RestoredFiles(setup, backup, sep) ==
    IF backup # NoFile
    THEN [setup |-> WriteText(ReadText(backup), sep), backup |-> NoFile]
    ELSE [setup |-> setup, backup |-> backup]

\* self.restore_setup_file() of the finally block
RestoreSetupFile ==
    /\ pc = "restore"
    /\ setup_file' = RestoredFiles(setup_file, backup_file, linesep).setup
    /\ backup_file' = RestoredFiles(setup_file, backup_file, linesep).backup
    /\ pc' = IF exc = "none" THEN "returned" ELSE "raised"
    /\ UNCHANGED <<linesep, setup_at_call, n_values, trial, exc, client, setup_code,
                   task, times, results, n_updates, n_submitted>>
    /\ UNCHANGED nonOrchVars

\* main(): "except Exception as e", which a KeyboardInterrupt passes by:
\* "if os.path.exists(benchmark.backup_file): benchmark.restore_setup_file()"
MainExceptHandler ==
    /\ pc = "raised"
    /\ exc # "interrupt"
    /\ IF backup_file # NoFile
       THEN /\ setup_file' = RestoredFiles(setup_file, backup_file, linesep).setup
            /\ backup_file' = RestoredFiles(setup_file, backup_file, linesep).backup
       ELSE UNCHANGED <<setup_file, backup_file>>
    /\ pc' = "handled"
    /\ UNCHANGED <<linesep, setup_at_call, n_values, trial, exc, client, setup_code,
                   task, times, results, n_updates, n_submitted>>
    /\ UNCHANGED nonOrchVars

-----------------------------------------------------------------------------
(* The driver tasks run by the pool's worker threads                       *)

\* the driver call returns ret
Finish(e, outcome, ret) ==
    task' = [task EXCEPT ![e].pc = "done", ![e].outcome = outcome, ![e].ret = ret,
                         ![e].raised = FALSE]

DriverFrame ==
    /\ UNCHANGED <<linesep, setup_file, backup_file, setup_at_call, n_values, pc, trial,
                   exc, client, setup_code, times, results, n_updates, n_submitted>>
    /\ UNCHANGED nonOrchVars

\* a worker thread of the pool takes the queued call
DriverStart(e) ==
    /\ task[e].pc = "queued"
    /\ Cardinality({x \in Envs : task[x].pc \in {"running", "polling", "proc"}}) < MaxWorkers
    /\ task' = [task EXCEPT ![e].pc = "running"]
    /\ DriverFrame

\* run_casl_cas / run_base_viya: start_time, read the program, client.submit_job(...);
\* job = ...; job_id = job['id'], or an exception, caught by "except Exception", returns None
RemoteSubmit(e) ==
    /\ e \in Remote
    /\ task[e].pc = "running"
    /\ \/ task' = [task EXCEPT ![e].pc = "polling"]
       \/ Finish(e, "error", NoneVal)
    /\ DriverFrame

\* run_casl_cas / run_base_viya: one turn of "while time.time() - start_time < timeout"
RemotePoll(e) ==
    /\ e \in Remote
    /\ task[e].pc = "polling"
    /\ \/ \E d \in 1..MaxElapsed : Finish(e, "completed", Some(d))
       \/ Finish(e, "failed", NoneVal)
       \/ Finish(e, "cancelled", NoneVal)
       \/ Finish(e, "error", NoneVal)              \* get_job_state raised
       \/ Finish(e, "timed_out", NoneVal)          \* the while condition is false
       \/ UNCHANGED task                           \* another state: time.sleep(poll_interval)
    /\ DriverFrame

\* variant: the FileNotFoundError of subprocess.run leaves run_base_local
LocalNotFoundRaises ==
    task' = [task EXCEPT !["BASE_LOCAL"].pc = "done", !["BASE_LOCAL"].outcome = "error",
                         !["BASE_LOCAL"].ret = NoneVal, !["BASE_LOCAL"].raised = TRUE]

\* run_base_local when no candidate path exists and "sas" is not on the PATH:
\* subprocess.run raises FileNotFoundError, which "except Exception" catches:
\* return None
LocalNotFound == Finish("BASE_LOCAL", "error", NoneVal)

\* run_base_local: subprocess.run(cmd, ...) starts SAS, which reads config/setup.sas;
\* or the executable is not found
LocalExec ==
    /\ task["BASE_LOCAL"].pc = "running"
    /\ \/ task' = [task EXCEPT !["BASE_LOCAL"].pc = "proc", !["BASE_LOCAL"].cfg = setup_file]
       \/ LocalNotFound
    /\ DriverFrame

\* how a started SAS process ends for run_base_local: returncode 0, another
\* returncode, or TimeoutExpired after subprocess.run killed the process
LocalOutcomes == {"completed", "failed", "timed_out"}

\* what run_base_local returns then: elapsed_time for returncode 0; "return None"
\* in the else branch and in "except subprocess.TimeoutExpired"
LocalReturn(outcome, d) == IF outcome = "completed" THEN Some(d) ELSE NoneVal

\* run_base_local: subprocess.run returns or raises TimeoutExpired
LocalFinish ==
    /\ task["BASE_LOCAL"].pc = "proc"
    /\ \E outcome \in LocalOutcomes : \E d \in 1..MaxElapsed :
          Finish("BASE_LOCAL", outcome, LocalReturn(outcome, d))
    /\ DriverFrame

-----------------------------------------------------------------------------
(* SASViyaAuth (sas_auth.py; the class in sas_base_casl_comparision.py is  *)
(* the same text): values                                                  *)

\* timedelta(minutes=5): refresh 5 minutes before expiry
Skew == 5

\* caller threads that share one SASViyaAuth instance
Callers == {1, 2}

\* a dict with string keys: a function from the keys present
EmptyDict == [k \in {} |-> 0]
DictUpdate(a, b) == [k \in DOMAIN a \cup DOMAIN b |-> IF k \in DOMAIN b THEN b[k] ELSE a[k]]
DictSet(a, k, v) == [x \in DOMAIN a \cup {k} |-> IF x = k THEN v ELSE a[x]]

\* data/sas_tokens.json
NoTokenFile == [exists |-> FALSE, data |-> EmptyDict]
TokenFile(d) == [exists |-> TRUE, data |-> d]

\* token files a process can find at its start: none, a credential saved by an
\* earlier run (access and refresh token 0), the same without expiry fields, the
\* same without a refresh token; the saved expiry is minute 7
StoredCredential ==
    [k \in {"access_token", "refresh_token", "expires_in", "expires_at"} |->
        IF k = "expires_at" THEN 7 ELSE IF k = "expires_in" THEN 10 ELSE 0]
StoredFiles ==
    { NoTokenFile,
      TokenFile(StoredCredential),
      TokenFile([k \in {"access_token", "refresh_token"} |-> 0]),
      TokenFile([k \in {"access_token", "expires_in", "expires_at"} |-> StoredCredential[k]]) }

\* HTTP answers of the token endpoint; 0 stands for no answer (a RequestException)
TokenStatuses == {200, 204, 401, 0}

\* response.raise_for_status() raises for 4xx and 5xx only
RaisesForStatus(s) == s >= 400 /\ s < 600

\* expires_in (minutes) a token response can carry
ExpiresInValues == {3, 7}

\* response.json() of a 200 answer: a new access token, optionally a new refresh
\* token, optionally expires_in
TokenBodies(n) ==
    { [k \in {"access_token"} \cup (IF rt THEN {"refresh_token"} ELSE {})
                               \cup (IF x > 0 THEN {"expires_in"} ELSE {}) |->
          IF k = "expires_in" THEN x ELSE n] :
      rt \in BOOLEAN, x \in {0} \cup ExpiresInValues }

\* a call in progress on the instance
OffCall == [pc |-> "off", op |-> "none", path |-> "none", rres |-> "none", ret |-> NoneVal,
            raised |-> FALSE, sent |-> 0, rt |-> NoneVal, resp |-> EmptyDict,
            snap |-> EmptyDict, fsnap |-> NoTokenFile, t0 |-> 0, t1 |-> 0]
IdleCall == [OffCall EXCEPT !.pc = "idle"]

-----------------------------------------------------------------------------
(* SASViyaAuth: the methods                                                *)

\* variant: the comparison of the expiry check is turned round
NeedsRefreshReversed(expires_at, t) == t <= expires_at - Skew

\* get_valid_access_token: "datetime.now() >= expires_at - timedelta(minutes=5)"
NeedsRefresh(expires_at, t) == t >= expires_at - Skew

\* get_valid_access_token up to the call of _refresh_access_token:
\* "empty" (return None), "refresh", or "get" (return self.tokens.get('access_token'))
GvatCheck(toks, t) ==
    IF toks = EmptyDict THEN "empty"
    ELSE IF "expires_at" \in DOMAIN toks /\ NeedsRefresh(toks["expires_at"], t)
         THEN "refresh"
         ELSE "get"

\* variant: the refresh does not recompute expires_at
RefreshedTokensNoExpiry(toks, new_tokens, t) == DictUpdate(toks, new_tokens)

\* _refresh_access_token, status 200: self.tokens.update(new_tokens) and, if
\* 'expires_in' in new_tokens, expires_at = now + expires_in
RefreshedTokens(toks, new_tokens, t) ==
    LET u == DictUpdate(toks, new_tokens)
    IN  IF "expires_in" \in DOMAIN new_tokens
        THEN DictSet(u, "expires_at", t + new_tokens["expires_in"])
        ELSE u

\* _exchange_code_for_tokens, status 200: self.tokens = response.json() and, if
\* 'expires_in' in self.tokens, expires_at = now + expires_in
ExchangedTokens(body, t) ==
    IF "expires_in" \in DOMAIN body
    THEN DictSet(body, "expires_at", t + body["expires_in"])
    ELSE body

\* variant: the tokens are not written to the file
SaveTokensSkipped(file, toks) == file

\* _save_tokens: "if self.tokens:" json.dump(self.tokens, f)
SaveTokens(file, toks) == IF toks # EmptyDict THEN TokenFile(toks) ELSE file

\* variant: get_valid_access_token without its except clause
OnRefreshErrorPropagates(k, how) ==
    [k EXCEPT !.pc = "ret", !.rres = how, !.ret = NoneVal, !.raised = TRUE]

\* what "except Exception as e: ... return None" of get_valid_access_token
\* makes of an exception raised by _refresh_access_token
OnRefreshError(k, how) ==
    [k EXCEPT !.pc = "ret", !.rres = how, !.ret = NoneVal, !.raised = FALSE]

\* the clock is capped at MaxNow
Tick ==
    /\ now < MaxNow
    /\ now' = now + 1
    /\ UNCHANGED <<tokens, token_file, call, issued>>
    /\ UNCHANGED nonAuthVars

\* load_tokens(): self.tokens = json.load(f), True; or FileNotFoundError, False
LoadTokens(c) ==
    /\ call[c].pc = "idle"
    /\ IF token_file.exists
       THEN tokens' = token_file.data
       ELSE UNCHANGED tokens
    /\ call' = [call EXCEPT ![c] = [IdleCall EXCEPT !.pc = "ret", !.op = "load"]]
    /\ UNCHANGED <<now, token_file, issued>>
    /\ UNCHANGED nonAuthVars

\* authenticate(): _get_authorization_code, _exchange_code_for_tokens, _save_tokens
Authenticate(c) ==
    /\ call[c].pc = "idle"
    /\ \E st \in TokenStatuses :
          IF st = 200
          THEN /\ issued < MaxIssued
               /\ \E body \in TokenBodies(issued + 1) :
                     /\ tokens' = ExchangedTokens(body, now)
                     /\ token_file' = SaveTokens(token_file, tokens')
                     /\ call' = [call EXCEPT ![c] =
                                    [IdleCall EXCEPT !.pc = "ret", !.op = "auth",
                                                     !.resp = body, !.t1 = now]]
               /\ issued' = issued + 1
          ELSE IF st = 0 \/ RaisesForStatus(st)
          THEN /\ call' = [call EXCEPT ![c] =
                              [IdleCall EXCEPT !.pc = "ret", !.op = "auth", !.raised = TRUE]]
               /\ UNCHANGED <<tokens, token_file, issued>>
          ELSE \* raise_for_status() returns: self.tokens stays as it was and is saved
               /\ token_file' = SaveTokens(token_file, tokens)
               /\ call' = [call EXCEPT ![c] = [IdleCall EXCEPT !.pc = "ret", !.op = "auth"]]
               /\ UNCHANGED <<tokens, issued>>
    /\ UNCHANGED now
    /\ UNCHANGED nonAuthVars

\* get_valid_access_token(): "if not self.tokens" and the expiry check
GvatEnter(c) ==
    /\ call[c].pc = "idle"
    /\ LET chk == GvatCheck(tokens, now)
           k == [IdleCall EXCEPT !.op = "gvat", !.snap = tokens, !.fsnap = token_file,
                                 !.t0 = now]
       IN  call' = [call EXCEPT ![c] =
               IF chk = "empty" THEN [k EXCEPT !.pc = "ret", !.path = "empty", !.ret = NoneVal]
               ELSE IF chk = "refresh" THEN [k EXCEPT !.pc = "refresh", !.path = "refresh"]
               ELSE [k EXCEPT !.pc = "get",
                              !.path = IF "expires_at" \in DOMAIN tokens
                                       THEN "valid" ELSE "noexp"]]
    /\ UNCHANGED <<now, tokens, token_file, issued>>
    /\ UNCHANGED nonAuthVars

\* _refresh_access_token(): ValueError without a refresh token, else requests.post(...)
GvatRefreshSend(c) ==
    /\ call[c].pc = "refresh"
    /\ IF tokens = EmptyDict \/ "refresh_token" \notin DOMAIN tokens
       THEN call' = [call EXCEPT ![c] = OnRefreshError(call[c], "norefresh")]
       ELSE call' = [call EXCEPT ![c].pc = "await", ![c].sent = call[c].sent + 1,
                                 ![c].rt = Some(tokens["refresh_token"])]
    /\ UNCHANGED <<now, tokens, token_file, issued>>
    /\ UNCHANGED nonAuthVars

\* _refresh_access_token(): the answer of the token endpoint
GvatRefreshRecv(c) ==
    /\ call[c].pc = "await"
    /\ \E st \in TokenStatuses :
          IF st = 200
          THEN /\ issued < MaxIssued
               /\ \E body \in TokenBodies(issued + 1) :
                     /\ tokens' = RefreshedTokens(tokens, body, now)
                     /\ token_file' = SaveTokens(token_file, tokens')
                     /\ call' = [call EXCEPT ![c].pc = "get", ![c].rres = "ok",
                                             ![c].resp = body, ![c].t1 = now]
               /\ issued' = issued + 1
          ELSE IF st = 0 \/ RaisesForStatus(st)
          THEN /\ call' = [call EXCEPT ![c] = OnRefreshError(call[c], "raised")]
               /\ UNCHANGED <<tokens, token_file, issued>>
          ELSE \* raise_for_status() returns, and so does _refresh_access_token
               /\ call' = [call EXCEPT ![c].pc = "get", ![c].rres = "ignored"]
               /\ UNCHANGED <<tokens, token_file, issued>>
    /\ UNCHANGED now
    /\ UNCHANGED nonAuthVars

\* get_valid_access_token(): return self.tokens.get('access_token')
GvatReturn(c) ==
    /\ call[c].pc = "get"
    /\ call' = [call EXCEPT ![c].pc = "ret",
                            ![c].ret = IF "access_token" \in DOMAIN tokens
                                       THEN Some(tokens["access_token"]) ELSE NoneVal]
    /\ UNCHANGED <<now, tokens, token_file, issued>>
    /\ UNCHANGED nonAuthVars

\* the caller has the result and is ready for its next call
CallDone(c) ==
    /\ call[c].pc = "ret"
    /\ call' = [call EXCEPT ![c] = IdleCall]
    /\ UNCHANGED <<now, tokens, token_file, issued>>
    /\ UNCHANGED nonAuthVars

\* a call of get_valid_access_token by thread c
GvatStep(c) ==
    \/ GvatEnter(c)
    \/ GvatRefreshSend(c)
    \/ GvatRefreshRecv(c)
    \/ GvatReturn(c)
    \/ CallDone(c)

AuthStep(c) ==
    \/ LoadTokens(c)
    \/ Authenticate(c)
    \/ GvatStep(c)

\* the timed driver is not part of the run
NoSession == [token |-> NoneVal, expires_at |-> NoneVal]
NoRequest == [kind |-> "none", t |-> 0]
NoGst == [via |-> "none", loaded |-> FALSE, valid |-> FALSE, raised |-> FALSE]
RunIdle ==
    /\ session = NoSession
    /\ rpc = "off"
    /\ rtrial = 1
    /\ rstart = 0
    /\ last_req = NoRequest
    /\ gst = NoGst

\* no SASViyaAuth instance is part of the run
AuthIdle ==
    /\ now = 0
    /\ tokens = EmptyDict
    /\ token_file = NoTokenFile
    /\ call = [c \in Callers |-> OffCall]
    /\ issued = 0

\* no status poll and no context resolution is part of the run
NoReturn == [kind |-> "none", state |-> "none"]
PollIdle ==
    /\ pproc = "off"
    /\ ppc = "off"
    /\ pep = 1
    /\ pclock = 0
    /\ plog = <<>>
    /\ pextra = 0
    /\ pret = NoReturn
    /\ psub = 0
    /\ pslept = 0
    /\ pelapsed = NoneVal
CtxIdle ==
    /\ contexts = <<>>
    /\ ctx_cache = NoneVal
    /\ cpc = [e \in Remote \cup {"sas_auth"} |-> "off"]
    /\ cres = [e \in Remote \cup {"sas_auth"} |-> NoneVal]
    /\ cwrites = {}
    /\ csub = [e \in Remote \cup {"sas_auth"} |-> <<>>]
    /\ cqueries = [e \in Remote \cup {"sas_auth"} |-> 0]
NoFastest == [some |-> FALSE, name |-> "none", time |-> 0]
AnaIdle ==
    /\ aprog = "off"
    /\ apc = "off"
    /\ aitems = <<>>
    /\ afastest = NoFastest
    /\ aslow = <<>>
LocalIdle ==
    /\ sas_present = {}
    /\ sas_on_path = FALSE
    /\ sas_exe = NoneVal
RestIdle == PollIdle /\ CtxIdle /\ AnaIdle /\ LocalIdle

OrchIdle ==
    /\ linesep = "LF"
    /\ setup_file = SetupLF
    /\ setup_at_call = SetupLF
    /\ backup_file = NoFile
    /\ n_values = <<>>
    /\ pc = "off"
    /\ trial = 1
    /\ exc = "none"
    /\ client = "none"
    /\ setup_code = <<>>
    /\ task = [e \in Envs |-> IdleTask]
    /\ times = <<>>
    /\ results = [e \in Envs |-> <<>>]
    /\ n_updates = 0
    /\ n_submitted = 0

\* one thread uses a SASViyaAuth instance; the token file is what an earlier run left
AuthInit ==
    /\ OrchIdle
    /\ now = 0
    /\ tokens = EmptyDict
    /\ token_file \in StoredFiles
    /\ call = [c \in Callers |-> IF c = 1 THEN IdleCall ELSE OffCall]
    /\ issued = 0
    /\ RunIdle
    /\ RestIdle

AuthNext == Tick \/ AuthStep(1)

AuthSpec == AuthInit /\ [][AuthNext]_vars

\* two threads share the instance: thread 1 also loads the tokens or authenticates,
\* both call get_valid_access_token
AuthConcInit ==
    /\ OrchIdle
    /\ now = 0
    /\ tokens = EmptyDict
    /\ token_file \in StoredFiles
    /\ call = [c \in Callers |-> IdleCall]
    /\ issued = 0
    /\ RunIdle
    /\ RestIdle

AuthConcNext == Tick \/ LoadTokens(1) \/ Authenticate(1) \/ \E c \in Callers : GvatStep(c)

AuthConcSpec == AuthConcInit /\ [][AuthConcNext]_vars

-----------------------------------------------------------------------------
(* One remote driver over wall-clock time (minutes)                        *)

\* timeout = 1800 seconds of run_casl_cas / run_base_viya
DriverTimeout == 30

\* minutes at which the program can start, relative to the token file an earlier
\* run saved (expiry at minute 7): long before the expiry, within the five
\* minutes before it, after it
StartTimes == {0, 3, 8}

\* self.tokens.get('access_token') as a value or None
AccessTokenOf(toks) ==
    IF "access_token" \in DOMAIN toks THEN Some(toks["access_token"]) ELSE NoneVal

\* get_valid_access_token() run by one thread at minute t: the outcomes
\* [toks, file, ret, how] the token endpoint allows; n is the token it would
\* issue, how names the path taken
GvatResults(toks, file, t, n) ==
    LET chk == GvatCheck(toks, t)
        kept(ret, how) == [toks |-> toks, file |-> file, ret |-> ret, how |-> how]
    IN  IF chk = "empty" THEN { kept(NoneVal, "empty") }
        ELSE IF chk = "get" THEN { kept(AccessTokenOf(toks), "get") }
        ELSE IF "refresh_token" \notin DOMAIN toks THEN { kept(NoneVal, "norefresh") }
        ELSE UNION { IF st = 200
                     THEN { [toks |-> RefreshedTokens(toks, body, t),
                             file |-> SaveTokens(file, RefreshedTokens(toks, body, t)),
                             ret  |-> AccessTokenOf(RefreshedTokens(toks, body, t)),
                             how  |-> "refreshed"] :
                            body \in TokenBodies(n) }
                     ELSE IF st = 0 \/ RaisesForStatus(st)
                     THEN { kept(NoneVal, "raised") }
                     ELSE { kept(AccessTokenOf(toks), "ignored") } : st \in TokenStatuses }

\* authenticate() at minute t: the outcomes [raised, toks, file]
AuthenticateResults(toks, file, t, n) ==
    UNION { IF st = 200
            THEN { [raised |-> FALSE, toks |-> ExchangedTokens(body, t),
                    file |-> SaveTokens(file, ExchangedTokens(body, t))] :
                   body \in TokenBodies(n) }
            ELSE IF st = 0 \/ RaisesForStatus(st)
            THEN { [raised |-> TRUE, toks |-> toks, file |-> file] }
            ELSE { [raised |-> FALSE, toks |-> toks, file |-> SaveTokens(file, toks)] } :
            st \in TokenStatuses }

\* an access token is there and the expiry recorded with it, if any, is not reached
ValidAt(toks, t) ==
    /\ "access_token" \in DOMAIN toks
    /\ "expires_at" \in DOMAIN toks => t < toks["expires_at"]

\* the token get_valid_access_token returned on path how is valid at t: it was
\* issued just now, or it passed the expiry test, or the failed refresh left a
\* stored token that has not expired yet
ReturnedValid(toks, how, t) ==
    \/ how \in {"get", "refreshed"}
    \/ how = "ignored" /\ ValidAt(toks, t)

\* get_sas_tokens() at minute t: load_tokens, get_valid_access_token and, without
\* an access token from them, authenticate. via, loaded and valid record the path:
\* who supplied the tokens returned, whether load_tokens succeeded, and whether
\* get_valid_access_token returned a token that is valid at t
GetSasTokensResults(file, t, n) ==
    LET loaded == file.exists
        toks0 == IF loaded THEN file.data ELSE EmptyDict
        gv == IF loaded THEN GvatResults(toks0, file, t, n) ELSE {}
        authenticate(toks, f, valid) ==
            { [raised |-> a.raised, toks |-> a.toks, file |-> a.file,
               via |-> "authenticate", loaded |-> loaded, valid |-> valid] :
              a \in AuthenticateResults(toks, f, t, n) }
    IN  { [raised |-> FALSE, toks |-> g.toks, file |-> g.file,
           via |-> "stored", loaded |-> TRUE, valid |-> ReturnedValid(g.toks, g.how, t)] :
          g \in { x \in gv : x.ret.some } }
        \cup UNION { authenticate(g.toks, g.file, FALSE) : g \in { x \in gv : ~x.ret.some } }
        \cup (IF loaded THEN {} ELSE authenticate(toks0, file, FALSE))

\* run_all_benchmarks: tokens = get_sas_tokens(); access_token = tokens['access_token'];
\* self.client = SASJobExecutionClient(base_url, access_token)
RunGetSasTokens ==
    /\ rpc = "auth"
    /\ \E r \in GetSasTokensResults(token_file, now, issued + 1) :
          /\ tokens' = r.toks
          /\ token_file' = r.file
          /\ issued' = IF r.toks = (IF token_file.exists THEN token_file.data ELSE EmptyDict)
                       THEN issued ELSE issued + 1
          /\ IF r.raised \/ "access_token" \notin DOMAIN r.toks
             THEN /\ rpc' = "failed"
                  /\ UNCHANGED session
             ELSE /\ rpc' = IF Len(n_values) >= 1 THEN "start" ELSE "done"
                  /\ session' = [token |-> Some(r.toks["access_token"]),
                                 expires_at |-> DictGet([k \in DOMAIN r.toks |-> Some(r.toks[k])],
                                                        "expires_at")]
          /\ gst' = [via |-> r.via, loaded |-> r.loaded, valid |-> r.valid,
                    raised |-> r.raised]
    /\ UNCHANGED <<now, call, rtrial, rstart, last_req>>
    /\ UNCHANGED <<orchVars, restVars>>

\* the driver is called: start_time = time.time()
RunStartTrial ==
    /\ rpc = "start"
    /\ rstart' = now
    /\ rpc' = "submit"
    /\ UNCHANGED <<session, gst, rtrial, last_req>>
    /\ UNCHANGED <<orchVars, authVars, restVars>>

\* the trial is over: the next one, or the end of the run
RunTrialOver == IF rtrial < Len(n_values) THEN "next" ELSE "done"

\* self.client.submit_job(...): a request with the session's header
RunSubmit ==
    /\ rpc = "submit"
    /\ last_req' = [kind |-> "submit", t |-> now]
    /\ \/ rpc' = "loop"
       \/ rpc' = RunTrialOver
    /\ UNCHANGED <<session, gst, rtrial, rstart>>
    /\ UNCHANGED <<orchVars, authVars, restVars>>

\* "while time.time() - start_time < timeout", else "timed out", return None
RunLoopTest ==
    /\ rpc = "loop"
    /\ rpc' = IF now - rstart < DriverTimeout THEN "poll" ELSE RunTrialOver
    /\ UNCHANGED <<session, gst, rtrial, rstart, last_req>>
    /\ UNCHANGED <<orchVars, authVars, restVars>>

\* self.client.get_job_state(job_id): a request with the session's header
RunPoll ==
    /\ rpc = "poll"
    /\ last_req' = [kind |-> "state", t |-> now]
    /\ \/ rpc' = "sleep"
       \/ rpc' = RunTrialOver
    /\ UNCHANGED <<session, gst, rtrial, rstart>>
    /\ UNCHANGED <<orchVars, authVars, restVars>>

\* time.sleep(poll_interval): 5 seconds, the minute may turn
RunSleep ==
    /\ rpc = "sleep"
    /\ \E d \in {0, 1} : now' = now + d
    /\ rpc' = "loop"
    /\ UNCHANGED <<tokens, token_file, call, issued>>
    /\ UNCHANGED <<session, gst, rtrial, rstart, last_req>>
    /\ UNCHANGED <<orchVars, restVars>>

\* the loop of run_all_benchmarks goes on to the next iteration count
RunNextTrial ==
    /\ rpc = "next"
    /\ rtrial' = rtrial + 1
    /\ rpc' = "start"
    /\ UNCHANGED <<session, gst, rstart, last_req>>
    /\ UNCHANGED <<orchVars, authVars, restVars>>

RunInit ==
    /\ linesep = "LF"
    /\ setup_file = SetupLF
    /\ setup_at_call = SetupLF
    /\ backup_file = NoFile
    /\ n_values \in NValuesInputs
    /\ pc = "off"
    /\ trial = 1
    /\ exc = "none"
    /\ client = "none"
    /\ setup_code = <<>>
    /\ task = [e \in Envs |-> IdleTask]
    /\ times = <<>>
    /\ results = [e \in Envs |-> <<>>]
    /\ n_updates = 0
    /\ n_submitted = 0
    /\ now \in StartTimes
    /\ tokens = EmptyDict
    /\ token_file \in StoredFiles
    /\ call = [c \in Callers |-> OffCall]
    /\ issued = 0
    /\ session = NoSession
    /\ rpc = "auth"
    /\ rtrial = 1
    /\ rstart = 0
    /\ last_req = NoRequest
    /\ gst = NoGst
    /\ RestIdle

RunNext ==
    \/ RunGetSasTokens
    \/ RunStartTrial
    \/ RunSubmit
    \/ RunLoopTest
    \/ RunPoll
    \/ RunSleep
    \/ RunNextTrial

RunSpec == RunInit /\ [][RunNext]_vars

-----------------------------------------------------------------------------
(* SASJobExecutionClient: status polls                                     *)

\* sleeps after which "time.time() - start_time < timeout" is false
PollDeadline == 2

\* the longest a job submission takes, in sleeps
MaxSubmitTime == 1

\* variant: the clock stands still during time.sleep
SleptNoTime(c) == c

\* time.time() - start_time after a time.sleep(...) that began at c
Slept(c) == c + 1

\* the endpoint patterns of sas_auth.py, in the order of the list
Endpoints == <<"jobs", "job_status", "job_definitions">>

\* answers to a status request; 0 stands for a RequestException
StatusAnswers == {200, 404, 500, 0}

\* states a job can be reported in
JobStates == {"running", "completed", "failed", "cancelled", "canceled", "Completed"}

\* str.lower() of a reported state
LowerState(js) == IF js = "Completed" THEN "completed" ELSE js

\* what a status answer carries: a state in a 200 answer, nothing otherwise
Reported(st) == IF st = 200 THEN JobStates ELSE {"none"}

\* "if state in [...]" of wait_for_job_completion and of run_casl_cas / run_base_viya
WaitTerminal == {"completed", "failed", "canceled", "cancelled"}
DriverTerminal == {"completed", "failed", "cancelled"}

Returned(kind, state) == [kind |-> kind, state |-> state]

PollFrame ==
    /\ UNCHANGED <<orchVars, authVars, runVars, ctxVars, anaVars, localVars>>

\* answers to the POST of a job request; 0 stands for a RequestException
SubmitAnswers == {200, 201, 202, 204, 500, 0}

\* sas_auth.py submit_job: job data for 200/201/202, otherwise
\* response.raise_for_status(), after which the function body ends
SubmitJob(st) ==
    IF st \in {200, 201, 202} THEN "job"
    ELSE IF st = 0 \/ RaisesForStatus(st) THEN "raised"
    ELSE "None"

\* sas_base_casl_comparision.py submit_job: raise_for_status() unless 201/200,
\* then response.json(), which raises on the empty body of a 204
ClientSubmitJob(st) ==
    IF st = 0 \/ (st \notin {201, 200} /\ RaisesForStatus(st)) THEN "raised"
    ELSE IF st = 204 THEN "raised"
    ELSE "job"

\* the job is submitted before its status is polled. run_casl_cas / run_base_viya
\* take start_time before client.submit_job(...) and turn every exception into
\* None; wait_for_job_completion and wait_for_completion are called with the
\* job id and take start_time themselves
PollSubmit ==
    /\ pproc \in {"wait", "driver", "wait_for_completion"}
    /\ ppc = "submit"
    /\ \E d \in 0..MaxSubmitTime :
          /\ psub' = d
          /\ pclock' = IF pproc = "driver" THEN d ELSE 0
    /\ \E st \in SubmitAnswers :
          LET out == IF pproc = "wait" THEN SubmitJob(st) ELSE ClientSubmitJob(st)
          IN  IF out = "job"
              THEN ppc' = "test" /\ UNCHANGED pret
              ELSE /\ ppc' = "ret"
                   /\ pret' = IF pproc = "driver" THEN Returned("None", "error")
                                                  ELSE Returned(out, "submit")
    /\ UNCHANGED <<pproc, pep, plog, pextra, pslept, pelapsed>>
    /\ PollFrame

\* sas_auth.py get_job_state: one turn of "for job_url in endpoints"
GjsGet ==
    /\ pproc = "get_job_state"
    /\ ppc = "get"
    /\ \E st \in StatusAnswers : \E js \in (IF st = 200 THEN JobStates \cup {"unknown"} ELSE {"none"}) :
          /\ plog' = Append(plog, [ep |-> pep, st |-> st, js |-> js])
          /\ IF st = 200
             THEN \* job_info.get('state', job_info.get('status', 'unknown')).lower()
                  /\ pret' = Returned("state", LowerState(js))
                  /\ ppc' = "ret"
                  /\ UNCHANGED pep
             ELSE IF (st = 404 \/ st = 0) /\ pep < Len(Endpoints)
             THEN \* continue
                  /\ pep' = pep + 1
                  /\ UNCHANGED <<ppc, pret>>
             ELSE \* break, or the list is exhausted: return 'unknown'
                  /\ pret' = Returned("state", "unknown")
                  /\ ppc' = "ret"
                  /\ UNCHANGED pep
    /\ UNCHANGED <<pproc, pclock, pextra, psub, pslept, pelapsed>>
    /\ PollFrame

\* wait_for_job_completion: "while time.time() - start_time < timeout"
WaitTest ==
    /\ pproc = "wait"
    /\ ppc = "test"
    /\ IF pclock < PollDeadline
       THEN ppc' = "get" /\ pep' = 1 /\ plog' = <<>>
       ELSE ppc' = "final" /\ UNCHANGED <<pep, plog>>
    /\ UNCHANGED <<pproc, pclock, pextra, pret, psub, pslept, pelapsed>>
    /\ PollFrame

\* wait_for_job_completion: one turn of "for job_url in endpoints"
WaitGet ==
    /\ pproc = "wait"
    /\ ppc = "get"
    /\ \E st \in StatusAnswers : \E js \in Reported(st) :
          /\ plog' = Append(plog, [ep |-> pep, st |-> st, js |-> js])
          /\ IF st = 200
             THEN    IF LowerState(js) \in WaitTerminal
                     THEN \* job_data['elapsedTime'] = ...(time.time() - start_time)...
                          /\ pret' = Returned("job", js)
                          /\ pelapsed' = Some(pclock)
                          /\ ppc' = "ret"
                          /\ UNCHANGED pep
                     ELSE \* break
                          /\ ppc' = "sleep"
                          /\ UNCHANGED <<pep, pret, pelapsed>>
             ELSE IF (st = 404 \/ st = 0) /\ pep < Len(Endpoints)
             THEN /\ pep' = pep + 1
                  /\ UNCHANGED <<ppc, pret, pelapsed>>
             ELSE \* break, or the list is exhausted
                  /\ ppc' = "sleep"
                  /\ UNCHANGED <<pep, pret, pelapsed>>
    /\ UNCHANGED <<pproc, pclock, pextra, psub, pslept>>
    /\ PollFrame

\* wait_for_job_completion: time.sleep(2)
WaitSleep ==
    /\ pproc = "wait"
    /\ ppc = "sleep"
    /\ pclock' = Slept(pclock)
    /\ pslept' = pslept + (Slept(pclock) - pclock)
    /\ ppc' = "test"
    /\ UNCHANGED <<pproc, pep, plog, pextra, pret, psub, pelapsed>>
    /\ PollFrame

\* wait_for_job_completion after the loop: one request to endpoints[0];
\* "return response.json()" on 200, else (also on an exception) "return {}"
WaitFinal ==
    /\ pproc = "wait"
    /\ ppc = "final"
    /\ \E st \in StatusAnswers : \E js \in Reported(st) :
          /\ plog' = <<[ep |-> 1, st |-> st, js |-> js]>>
          /\ IF st = 200
             THEN pret' = Returned("job", js)
             ELSE pret' = Returned("empty", "none")
    /\ pextra' = pextra + 1
    /\ ppc' = "ret"
    /\ UNCHANGED <<pproc, pep, pclock, psub, pslept, pelapsed>>
    /\ PollFrame

\* run_casl_cas / run_base_viya: "while time.time() - start_time < timeout",
\* after the loop "timed out", return None
DrvTest ==
    /\ pproc = "driver"
    /\ ppc = "test"
    /\ IF pclock < PollDeadline
       THEN /\ ppc' = "get"
            /\ plog' = <<>>
            /\ UNCHANGED pret
       ELSE /\ ppc' = "ret"
            /\ pret' = Returned("None", "timed_out")
            /\ UNCHANGED plog
    /\ UNCHANGED <<pproc, pep, pclock, pextra, psub, pslept, pelapsed>>
    /\ PollFrame

\* what the driver returns for a terminal state
DriverReturn(js) ==
    IF js = "completed" THEN Returned("elapsed", js) ELSE Returned("None", js)

\* elapsed_time = time.time() - start_time, returned for 'completed' only
DriverElapsed(js, c) == IF js = "completed" THEN Some(c) ELSE NoneVal

\* run_casl_cas / run_base_viya: state = self.client.get_job_state(job_id) of
\* sas_base_casl_comparision.py (one endpoint, raise_for_status), and the
\* driver's "except Exception: return None"
DrvGet ==
    /\ pproc = "driver"
    /\ ppc = "get"
    /\ \E st \in StatusAnswers : \E js \in Reported(st) :
          /\ plog' = Append(plog, [ep |-> 1, st |-> st, js |-> js])
          /\ IF st = 200
             THEN    IF js \in DriverTerminal
                     THEN /\ pret' = DriverReturn(js)
                          /\ pelapsed' = DriverElapsed(js, pclock)
                          /\ ppc' = "ret"
                     ELSE ppc' = "sleep" /\ UNCHANGED <<pret, pelapsed>>
             ELSE /\ pret' = Returned("None", "error")
                  /\ ppc' = "ret"
                  /\ UNCHANGED pelapsed
    /\ UNCHANGED <<pproc, pep, pclock, pextra, psub, pslept>>
    /\ PollFrame

\* run_casl_cas / run_base_viya: time.sleep(poll_interval)
DrvSleep ==
    /\ pproc = "driver"
    /\ ppc = "sleep"
    /\ pclock' = Slept(pclock)
    /\ pslept' = pslept + (Slept(pclock) - pclock)
    /\ ppc' = "test"
    /\ UNCHANGED <<pproc, pep, plog, pextra, pret, psub, pelapsed>>
    /\ PollFrame

\* sas_base_casl_comparision.py wait_for_completion:
\* "while time.time() - start_time < timeout", after the loop raise TimeoutError
WfcTest ==
    /\ pproc = "wait_for_completion"
    /\ ppc = "test"
    /\ IF pclock < PollDeadline
       THEN /\ ppc' = "get"
            /\ plog' = <<>>
            /\ UNCHANGED pret
       ELSE /\ ppc' = "ret"
            /\ pret' = Returned("TimeoutError", "timed_out")
            /\ UNCHANGED plog
    /\ UNCHANGED <<pproc, pep, pclock, pextra, psub, pslept, pelapsed>>
    /\ PollFrame

\* wait_for_completion: state = self.get_job_state(job_id); an exception goes to
\* "except Exception", which sleeps; a terminal state goes on to get_job_details
WfcGet ==
    /\ pproc = "wait_for_completion"
    /\ ppc = "get"
    /\ \E st \in StatusAnswers : \E js \in Reported(st) :
          /\ plog' = Append(plog, [ep |-> 1, st |-> st, js |-> js])
          /\ IF st = 200
             THEN    /\ ppc' = IF js \in DriverTerminal THEN "details" ELSE "sleep"
                     /\ pret' = IF js \in DriverTerminal THEN Returned("pending", js)
                                ELSE pret
             ELSE ppc' = "sleep" /\ UNCHANGED pret
    /\ UNCHANGED <<pproc, pep, pclock, pextra, psub, pslept, pelapsed>>
    /\ PollFrame

\* wait_for_completion: job = self.get_job_details(job_id); return job, or the
\* exception of get_job_details goes to "except Exception", which sleeps
WfcDetails ==
    /\ pproc = "wait_for_completion"
    /\ ppc = "details"
    /\ \E st \in StatusAnswers :
          /\ plog' = Append(plog, [ep |-> 1, st |-> st, js |-> "none"])
          /\ IF st = 200
             THEN ppc' = "ret" /\ pret' = Returned("job", pret.state)
             ELSE ppc' = "sleep" /\ pret' = NoReturn
    /\ UNCHANGED <<pproc, pep, pclock, pextra, psub, pslept, pelapsed>>
    /\ PollFrame

\* wait_for_completion: time.sleep(poll_interval), in the try block or in the handler
WfcSleep ==
    /\ pproc = "wait_for_completion"
    /\ ppc = "sleep"
    /\ pclock' = Slept(pclock)
    /\ pslept' = pslept + (Slept(pclock) - pclock)
    /\ ppc' = "test"
    /\ UNCHANGED <<pproc, pep, plog, pextra, pret, psub, pelapsed>>
    /\ PollFrame

\* the list sas_paths of run_base_local, in its order
sas_paths ==
    << "C:\\Program Files\\SASHome\\SASFoundation\\9.4\\sas.exe",
       "C:\\Program Files\\SAS\\SASFoundation\\9.4\\sas.exe",
       "C:\\Program Files (x86)\\SASHome\\SASFoundation\\9.4\\sas.exe",
       "C:\\SAS9.4\\sas.exe" >>

\* "for path in sas_paths: if os.path.exists(path): sas_exe = path; break" from
\* the i-th path on; None when the loop ends without a hit
RECURSIVE ProbeFrom(_, _)
ProbeFrom(i, present) ==
    IF i > Len(sas_paths) THEN NoneVal
    ELSE IF sas_paths[i] \in present THEN Some(sas_paths[i])
    ELSE ProbeFrom(i + 1, present)

\* variant: the loop has no break, the last existing path wins
SasExeLastHit(present) ==
    LET hits == {i \in DOMAIN sas_paths : sas_paths[i] \in present}
    IN  IF hits = {} THEN Some("sas")
        ELSE Some(sas_paths[CHOOSE i \in hits : \A j \in hits : j <= i])

\* run_base_local: the probe loop, then "if not sas_exe: sas_exe = 'sas'"
SasExe(present) ==
    IF ProbeFrom(1, present).some THEN ProbeFrom(1, present) ELSE Some("sas")

\* the operating system finds the program cmd[0] names
Resolves(exe, present, on_path) ==
    IF exe = "sas" THEN on_path ELSE exe \in present

\* run_base_local from start_time to the command line
SubprocessProbe ==
    /\ pproc = "run_base_local"
    /\ ppc = "probe"
    /\ sas_exe' = SasExe(sas_present)
    /\ ppc' = "proc"
    /\ UNCHANGED <<sas_present, sas_on_path>>
    /\ UNCHANGED <<pproc, pep, pclock, plog, pextra, pret, psub, pslept, pelapsed>>
    /\ UNCHANGED <<orchVars, authVars, runVars, ctxVars, anaVars>>

\* run_base_local: subprocess.run(cmd, ..., timeout=1800) returns when the process
\* exits, or kills it at the timeout and raises TimeoutExpired
SubprocessRun ==
    /\ pproc = "run_base_local"
    /\ ppc = "proc"
    /\ IF Resolves(sas_exe.v, sas_present, sas_on_path)
       THEN \E outcome \in LocalOutcomes :
               pret' = Returned(IF outcome = "completed" THEN "elapsed" ELSE "None", outcome)
       ELSE \* FileNotFoundError, caught by "except Exception": return None
            pret' = Returned("None", "error")
    /\ ppc' = "ret"
    /\ UNCHANGED <<pproc, pep, pclock, plog, pextra, psub, pslept, pelapsed>>
    /\ PollFrame

PollInit ==
    /\ OrchIdle
    /\ AuthIdle
    /\ RunIdle
    /\ CtxIdle
    /\ AnaIdle
    /\ pproc \in {"get_job_state", "wait", "driver", "wait_for_completion", "run_base_local"}
    /\ ppc = CASE pproc = "get_job_state" -> "get"
               [] pproc = "run_base_local" -> "probe"
               [] OTHER -> "submit"
    /\ IF pproc = "run_base_local"
       THEN /\ sas_present \in SUBSET {sas_paths[i] : i \in DOMAIN sas_paths}
            /\ sas_on_path \in BOOLEAN
       ELSE /\ sas_present = {}
            /\ sas_on_path = FALSE
    /\ sas_exe = NoneVal
    /\ pep = 1
    /\ pclock = 0
    /\ plog = <<>>
    /\ pextra = 0
    /\ pret = NoReturn
    /\ psub = 0
    /\ pslept = 0
    /\ pelapsed = NoneVal

PollNext ==
    \/ PollSubmit
    \/ GjsGet
    \/ WaitTest
    \/ WaitGet
    \/ WaitSleep
    \/ WaitFinal
    \/ DrvTest
    \/ DrvGet
    \/ DrvSleep
    \/ WfcTest
    \/ WfcGet
    \/ WfcDetails
    \/ WfcSleep
    \/ SubprocessProbe
    \/ SubprocessRun

\* the threads that poll are scheduled, each HTTP call returns and time.sleep ends
PollFairness == WF_vars(PollNext)

PollSpec == PollInit /\ [][PollNext]_vars

\* the polls under the assumption that every call returns
PollLiveSpec == PollInit /\ [][PollNext]_vars /\ PollFairness

-----------------------------------------------------------------------------
(* SASJobExecutionClient: compute-context resolution                       *)

\* contexts the compute service lists at most
MaxContexts == 2

\* submit_job calls of one caller (one per trial)
MaxSubmits == 2

\* a context name is the sequence of its words, which single spaces separate
\* (no word of these names contains another name's word as a part)
ContextNames ==
    { <<"SAS", "Studio", "compute", "context">>,
      <<"SAS", "Job", "Execution", "compute", "context">>,
      <<"Job", "Execution", "compute", "context">>,
      <<"DEFAULT">>,
      <<"my", "default", "sandbox">>,
      <<"CAS", "Formats">> }

\* str.lower()
LowerWord(w) ==
    CASE w = "SAS" -> "sas"
      [] w = "Studio" -> "studio"
      [] w = "Job" -> "job"
      [] w = "Execution" -> "execution"
      [] w = "DEFAULT" -> "default"
      [] w = "CAS" -> "cas"
      [] w = "Formats" -> "formats"
      [] OTHER -> w
Lower(name) == [i \in DOMAIN name |-> LowerWord(name[i])]

\* "phrase in name"
Contains(name, phrase) ==
    \E i \in 1..Len(name) :
        /\ i + Len(phrase) - 1 <= Len(name)
        /\ SubSeq(name, i, i + Len(phrase) - 1) = phrase

\* the list of get_context_id, in its order
PreferredNames ==
    << <<"SAS", "Studio", "compute", "context">>,
       <<"Job", "Execution", "compute", "context">>,
       <<"default">>,
       <<"sas", "studio">> >>

\* the items of a contexts response: the id of a context is its place in the list
Items(names) == [i \in DOMAIN names |-> [name |-> names[i], id |-> i]]
ContextLists ==
    UNION { [1..n -> ContextNames] : n \in 0..MaxContexts }

\* the least element of a non-empty set of naturals
Least(S) == CHOOSE x \in S : \A y \in S : x <= y

\* sas_auth.py get_context_id: for preferred_name in [...]: for context in contexts:
\* the first hit of the nested loops, else contexts[0]; None for an empty list
GetContextId(items) ==
    IF items = <<>> THEN NoneVal
    ELSE LET hits == { <<p, i>> \in (DOMAIN PreferredNames) \X (DOMAIN items) :
                          Lower(items[i].name) = Lower(PreferredNames[p]) }
         IN  IF hits = {} THEN Some(items[1].id)
             ELSE LET p0 == Least({h[1] : h \in hits})
                      i0 == Least({h[2] : h \in {x \in hits : x[1] = p0}})
                  IN  Some(items[i0].id)

\* sas_base_casl_comparision.py get_default_compute_context after the cache test:
\* the first context whose name holds 'job execution' or 'default', else contexts[0]
DefaultContextChoice(items) ==
    LET hits == { i \in DOMAIN items :
                     \/ Contains(Lower(items[i].name), <<"job", "execution">>)
                     \/ Contains(Lower(items[i].name), <<"default">>) }
    IN  IF hits # {} THEN Some(items[Least(hits)].id)
        ELSE IF items # <<>> THEN Some(items[1].id)
        ELSE NoneVal

\* the callers: the two remote drivers, which share self.client, and a call of
\* get_context_id on a client of sas_auth.py
CtxCallers == Remote \cup {"sas_auth"}

CtxFrame ==
    /\ UNCHANGED <<orchVars, authVars, runVars, pollVars, anaVars, localVars>>

\* what get_compute_contexts returns: the items, or [] after a failed request
Fetched == {Items(contexts), <<>>}

\* get_default_compute_context: "if self._compute_context_id: return ..."
CtxCheck(e) ==
    /\ e \in Remote
    /\ cpc[e] = "call"
    /\ IF ctx_cache.some
       THEN /\ cpc' = [cpc EXCEPT ![e] = "done"]
            /\ cres' = [cres EXCEPT ![e] = ctx_cache]
       ELSE /\ cpc' = [cpc EXCEPT ![e] = "fetch"]
            /\ UNCHANGED cres
    /\ UNCHANGED <<contexts, ctx_cache, cwrites, csub, cqueries>>
    /\ CtxFrame

\* get_default_compute_context: contexts = self.get_compute_contexts() and the choice
CtxFetch(e) ==
    /\ e \in Remote
    /\ cpc[e] = "fetch"
    /\ \E items \in Fetched :
          /\ cres' = [cres EXCEPT ![e] = DefaultContextChoice(items)]
          /\ cpc' = [cpc EXCEPT ![e] = IF DefaultContextChoice(items).some
                                       THEN "write" ELSE "done"]
    /\ cqueries' = [cqueries EXCEPT ![e] = @ + 1]
    /\ UNCHANGED <<contexts, ctx_cache, cwrites, csub>>
    /\ CtxFrame

\* get_default_compute_context: self._compute_context_id = context.get('id')
CtxWrite(e) ==
    /\ e \in Remote
    /\ cpc[e] = "write"
    /\ ctx_cache' = cres[e]
    /\ cwrites' = cwrites \cup {e}
    /\ cpc' = [cpc EXCEPT ![e] = "done"]
    /\ UNCHANGED <<contexts, cres, csub, cqueries>>
    /\ CtxFrame

\* sas_auth.py: contexts = self.get_compute_contexts(); ... return context_id
CtxGetContextId ==
    /\ cpc["sas_auth"] = "call"
    /\ \E items \in Fetched :
          cres' = [cres EXCEPT !["sas_auth"] = GetContextId(items)]
    /\ cpc' = [cpc EXCEPT !["sas_auth"] = "done"]
    /\ cqueries' = [cqueries EXCEPT !["sas_auth"] = @ + 1]
    /\ UNCHANGED <<contexts, ctx_cache, cwrites, csub>>
    /\ CtxFrame

\* sas_base_casl_comparision.py submit_job with the context id ctx that
\* get_default_compute_context returned: the argument added to the request, which
\* is posted in either case
SubmitArguments(ctx) ==
    IF ctx.some
    THEN [ctx |-> ctx, arg |-> "_contextId", posted |-> TRUE, raised |-> FALSE]
    ELSE [ctx |-> ctx, arg |-> "_contextName", posted |-> TRUE, raised |-> FALSE]

\* sas_auth.py submit_job with the context id ctx that get_context_id returned:
\* "if not context_id: raise ValueError(...)" comes before the request is built
SubmitJobRequest(ctx) ==
    IF ctx.some
    THEN [ctx |-> ctx, arg |-> "_contextId", posted |-> TRUE, raised |-> FALSE]
    ELSE [ctx |-> ctx, arg |-> "none", posted |-> FALSE, raised |-> TRUE]

\* submit_job of the benchmark's client from the resolved context on
CtxSubmit(e) ==
    /\ e \in Remote
    /\ cpc[e] = "done"
    /\ csub' = [csub EXCEPT ![e] = Append(@, SubmitArguments(cres[e]))]
    /\ cpc' = [cpc EXCEPT ![e] = "submitted"]
    /\ UNCHANGED <<contexts, ctx_cache, cres, cwrites, cqueries>>
    /\ CtxFrame

\* sas_auth.py submit_job from the resolved context on
CtxSubmitJob ==
    /\ cpc["sas_auth"] = "done"
    /\ csub' = [csub EXCEPT !["sas_auth"] = Append(@, SubmitJobRequest(cres["sas_auth"]))]
    /\ cpc' = [cpc EXCEPT !["sas_auth"] = "submitted"]
    /\ UNCHANGED <<contexts, ctx_cache, cres, cwrites, cqueries>>
    /\ CtxFrame

\* the caller's next submit_job call (the driver of the next trial)
CtxAgain(e) ==
    /\ cpc[e] = "submitted"
    /\ Len(csub[e]) < MaxSubmits
    /\ cpc' = [cpc EXCEPT ![e] = "call"]
    /\ cres' = [cres EXCEPT ![e] = NoneVal]
    /\ UNCHANGED <<contexts, ctx_cache, cwrites, csub, cqueries>>
    /\ CtxFrame

CtxInit ==
    /\ OrchIdle
    /\ AuthIdle
    /\ RunIdle
    /\ PollIdle
    /\ AnaIdle
    /\ LocalIdle
    /\ contexts \in ContextLists
    /\ ctx_cache = NoneVal
    /\ cpc = [e \in CtxCallers |-> "call"]
    /\ cres = [e \in CtxCallers |-> NoneVal]
    /\ cwrites = {}
    /\ csub = [e \in CtxCallers |-> <<>>]
    /\ cqueries = [e \in CtxCallers |-> 0]

CtxNext ==
    \/ \E e \in Remote : CtxCheck(e)
    \/ \E e \in Remote : CtxFetch(e)
    \/ \E e \in Remote : CtxWrite(e)
    \/ CtxGetContextId
    \/ \E e \in Remote : CtxSubmit(e)
    \/ CtxSubmitJob
    \/ \E e \in CtxCallers : CtxAgain(e)

CtxSpec == CtxInit /\ [][CtxNext]_vars

-----------------------------------------------------------------------------
(* The comparison of the elapsed times of one trial                        *)

\* the largest elapsed time of a backend
MaxTime == 3

\* a float that arithmetic on the elapsed times yields, as an exact fraction
\* (the rounding of the float operations is left out)
Frac(n, d) == [num |-> n, den |-> d]
FracDiv(a, b) == Frac(a.num * b.den, a.den * b.num)
FracSub(a, b) == Frac(a.num * b.den - b.num * a.den, a.den * b.den)
FracMul(a, b) == Frac(a.num * b.num, a.den * b.den)
FracEq(a, b) == a.num * b.den = b.num * a.den

\* the items that are in keep, in their order
RECURSIVE Filter(_, _)
Filter(items, keep) ==
    IF items = <<>> THEN <<>>
    ELSE IF Head(items) \in keep THEN <<Head(items)>> \o Filter(Tail(items), keep)
    ELSE Filter(Tail(items), keep)

\* min(items, key=lambda x: x[1]) on a non-empty sequence of (name, time) pairs:
\* the first item that no item is less than
RECURSIVE MinItem(_)
MinItem(items) ==
    IF Len(items) = 1 THEN items[1]
    ELSE LET best == MinItem(SubSeq(items, 1, Len(items) - 1))
             last == items[Len(items)]
         IN  IF last[2].v < best[2].v THEN last ELSE best

\* variant: the entries that are None stay in the dict
ValidResultsAll(items) == items

\* sas_environment_benchmark.py: {k: v for k, v in results.items() if v is not None}
ValidResults(items) ==
    Filter(items, {items[i] : i \in {j \in DOMAIN items : items[j][2] # NoneVal}})

\* sas_base_casl_comparision.py: [(name, time) for name, time in times if time > 0]
ValidTimes(items) ==
    Filter(items, {items[i] : i \in {j \in DOMAIN items : items[j][2].v > 0}})

\* sas_environment_benchmark.py: slowdown = (time / fastest[1] - 1) * 100
Slowdown(time, fastest) ==
    FracMul(FracSub(FracDiv(Frac(time, 1), Frac(fastest, 1)), Frac(1, 1)), Frac(100, 1))

\* sas_base_casl_comparision.py: diff_percent = ((time - fastest_time) / fastest_time) * 100
DiffPercent(time, fastest) ==
    FracMul(FracDiv(FracSub(Frac(time, 1), Frac(fastest, 1)), Frac(fastest, 1)), Frac(100, 1))

\* the orders a dict filled in completion order can have
Orders ==
    { o \in [1..Len(Environments) -> Envs] : \A i, j \in DOMAIN o : i # j => o[i] # o[j] }

\* the results dict of a trial: None or an elapsed time for each environment
ResultDicts ==
    { [i \in 1..Len(Environments) |-> <<o[i], v[o[i]]>>] :
         o \in Orders, v \in [Envs -> {NoneVal} \cup {Some(t) : t \in 1..MaxTime}] }

\* the times list of the comparison block: job.get('elapsedTime', 0) of each result
TimesLists ==
    { [i \in 1..Len(Environments) |-> <<Environments[i], Some(v[Environments[i]])>>] :
         v \in [Envs -> 0..MaxTime] }

\* the names of the items
Names(items) == {items[i][1] : i \in DOMAIN items}
IndexOf(items, name) == CHOOSE i \in DOMAIN items : items[i][1] = name

AnaFrame ==
    /\ UNCHANGED <<orchVars, authVars, runVars, pollVars, ctxVars, localVars>>

\* run_iteration_benchmark, "Analyze results for this iteration"
AnalyzeResults ==
    /\ aprog = "benchmark"
    /\ apc = "start"
    /\ LET valid_results == ValidResults(aitems)
       IN  IF Len(valid_results) >= 2
           THEN LET fastest == MinItem(valid_results)
                IN  /\ afastest' = [some |-> TRUE, name |-> fastest[1], time |-> fastest[2].v]
                    /\ aslow' = [env \in Names(valid_results) \ {fastest[1]} |->
                                    Slowdown(valid_results[IndexOf(valid_results, env)][2].v,
                                             fastest[2].v)]
           ELSE UNCHANGED <<afastest, aslow>>
    /\ apc' = "done"
    /\ UNCHANGED <<aprog, aitems>>
    /\ AnaFrame

\* sas_base_casl_comparision.py, "Compare all three"
CompareTimes ==
    /\ aprog = "comparison"
    /\ apc = "start"
    /\ LET valid_times == ValidTimes(aitems)
       IN  IF Len(valid_times) >= 2
           THEN LET fastest == MinItem(valid_times)
                IN  /\ afastest' = [some |-> TRUE, name |-> fastest[1], time |-> fastest[2].v]
                    /\ aslow' = [name \in Names(valid_times) \ {fastest[1]} |->
                                    DiffPercent(valid_times[IndexOf(valid_times, name)][2].v,
                                                fastest[2].v)]
           ELSE UNCHANGED <<afastest, aslow>>
    /\ apc' = "done"
    /\ UNCHANGED <<aprog, aitems>>
    /\ AnaFrame

AnaInit ==
    /\ OrchIdle
    /\ AuthIdle
    /\ RunIdle
    /\ PollIdle
    /\ CtxIdle
    /\ LocalIdle
    /\ aprog \in {"benchmark", "comparison"}
    /\ apc = "start"
    /\ aitems \in IF aprog = "benchmark" THEN ResultDicts ELSE TimesLists
    /\ afastest = NoFastest
    /\ aslow = <<>>

AnaNext ==
    \/ AnalyzeResults
    \/ CompareTimes

AnaSpec == AnaInit /\ [][AnaNext]_vars

-----------------------------------------------------------------------------
(* The benchmark run                                                       *)

Init ==
    /\ linesep \in {"LF", "CRLF"}
    /\ setup_file \in SetupContents
    /\ setup_at_call = setup_file
    /\ backup_file = NoFile
    /\ n_values \in NValuesInputs
    /\ pc = "call"
    /\ trial = 1
    /\ exc = "none"
    /\ client = "none"
    /\ setup_code = <<>>
    /\ task = [e \in Envs |-> IdleTask]
    /\ times = <<>>
    /\ results = [e \in Envs |-> <<>>]
    /\ n_updates = 0
    /\ n_submitted = 0
    /\ AuthIdle
    /\ RunIdle
    /\ RestIdle

Next ==
    \/ BackupSetupFile
    \/ GetSasTokens
    \/ UpdateIterationCount
    \/ WriteSetupFile
    \/ SubmitTask
    \/ \E e \in Envs : Collect(e)
    \/ Interrupt
    \/ StoreResults
    \/ SaveResults
    \/ Shutdown
    \/ RestoreSetupFile
    \/ MainExceptHandler
    \/ \E e \in Envs : DriverStart(e)
    \/ \E e \in Remote : RemoteSubmit(e)
    \/ \E e \in Remote : RemotePoll(e)
    \/ LocalExec
    \/ LocalFinish

Spec == Init /\ [][Next]_vars

-----------------------------------------------------------------------------
(* Properties                                                              *)

\* run_all_benchmarks has returned or raised
Exited == pc \in {"returned", "raised", "handled"}

\* C1: whenever run_all_benchmarks has returned or raised, config/setup.sas holds
\* exactly the content it held when run_all_benchmarks was called.
C1_SetupFileIdentical == Exited => setup_file = setup_at_call

\* C2: a driver task that is queued or running belongs to the current trial, whose
\* update_iteration_count has finished its write, and no update_iteration_count
\* is under way; what the local SAS process read from config/setup.sas, and the
\* setup code a remote driver was given, carry this trial's iteration count.
C2_TrialsSerialized ==
    \A e \in Envs :
        /\ Active(task[e]) =>
              /\ task[e].trial = trial
              /\ n_updates = trial
              /\ pc \in {"submit", "collect", "shutdown"}
        /\ task[e].pc = "proc" =>
              task[e].cfg = WriteText(ReSub(ReadText(setup_at_call), IterationCount(trial)), linesep)
        /\ (Active(task[e]) /\ e \in Remote) =>
              task[e].cfg = ReSub(ReadText(setup_at_call), IterationCount(trial))

\* the drivers of the second trial run in parallel
C2_SecondTrialParallel ==
    /\ trial = 2
    /\ task["BASE_LOCAL"].pc = "proc"
    /\ task["CASL_CAS"].pc = "polling"
    /\ task["BASE_VIYA"].pc = "polling"

\* C3: when the trial's futures are collected every driver task has finished by
\* itself, the trial's times hold the elapsed time of each driver that completed
\* and None for each that did not, and these values are what the trial appends
\* to the results before the next trial.
C3_FailureIsolation ==
    /\ pc = "store" =>
          /\ exc = "none"
          /\ \A e \in Envs :
                /\ task[e].pc = "done"
                /\ task[e].trial = trial
                /\ e \in DOMAIN times
                /\ times[e] = IF task[e].outcome = "completed" THEN task[e].ret ELSE NoneVal
                /\ task[e].outcome = "completed" => times[e].some
    /\ pc = "save" =>
          \A e \in Envs :
              /\ Len(results[e]) = trial
              /\ results[e][trial] = DictGet(times, e)

\* the second trial runs after a first trial in which exactly one driver failed
C3_OneFailedTwoSucceeded ==
    /\ trial = 2
    /\ pc = "collect"
    /\ Len(results["BASE_VIYA"]) = 1
    /\ ~results["BASE_VIYA"][1].some
    /\ results["CASL_CAS"][1].some
    /\ results["BASE_LOCAL"][1].some

\* C10: once get_sas_tokens has raised, the run is on its way out with that
\* exception: no task was submitted, update_iteration_count never ran, no result
\* was recorded, and the function does not return normally.
C10_AuthFailureFatal ==
    exc = "auth" =>
        /\ pc \in {"shutdown", "restore", "raised", "handled"}
        /\ n_submitted = 0
        /\ n_updates = 0
        /\ \A e \in Envs : results[e] = <<>> /\ task[e] = IdleTask

\* the exception of get_sas_tokens has reached the caller
C10_AuthErrorRaised == pc = "raised" /\ exc = "auth"

\* a finished call of get_valid_access_token by thread c
GvatDone(c) == call[c].op = "gvat" /\ call[c].pc = "ret"

\* the credential cached when the call began was more than the skew from expiry
FreshAtEntry(c) ==
    /\ "expires_at" \in DOMAIN call[c].snap
    /\ call[c].snap["expires_at"] > call[c].t0 + Skew

\* the credential cached when the call began was within the skew of expiry
WithinSkewAtEntry(c) ==
    /\ "expires_at" \in DOMAIN call[c].snap
    /\ call[c].t0 >= call[c].snap["expires_at"] - Skew

\* the refresh attempt of the call failed
RefreshFailed(c) == call[c].rres \in {"raised", "norefresh", "ignored"}

\* C4: at most one refresh request of the instance is in flight at any time.
C4_SingleFlight == Cardinality({c \in Callers : call[c].pc = "await"}) <= 1

\* C5: a call that found a credential expiring more than 5 minutes ahead returns
\* the cached access token, has sent no refresh request, and has left the cached
\* tokens and the token file as they were.
C5_ValidTokenNoRefresh ==
    \A c \in Callers :
        (GvatDone(c) /\ FreshAtEntry(c)) =>
            /\ call[c].ret = AccessTokenOf(call[c].snap)
            /\ call[c].sent = 0
            /\ tokens = call[c].snap
            /\ token_file = call[c].fsnap

\* a call has returned the access token of a credential that was still fresh
C5_FreshTokenReturned ==
    \E c \in Callers : GvatDone(c) /\ FreshAtEntry(c) /\ call[c].ret.some

\* what a call within the skew does up to the answer of the token endpoint, and
\* what a successful refresh leaves apart from the expiry
RefreshAttempted(c) ==
    /\ call[c].rres # "none"
    /\ IF "refresh_token" \in DOMAIN call[c].snap
       THEN call[c].sent = 1 /\ call[c].rt = Some(call[c].snap["refresh_token"])
       ELSE call[c].sent = 0 /\ call[c].rres = "norefresh"
    /\ call[c].rres = "ok" =>
          /\ "access_token" \in DOMAIN tokens
          /\ tokens["access_token"] = call[c].resp["access_token"]
          /\ tokens["access_token"] # call[c].snap["access_token"]
          /\ token_file = TokenFile(tokens)
          /\ call[c].ret = Some(call[c].resp["access_token"])

C7_FailedRefreshInvalidates ==
    \A c \in Callers : (GvatDone(c) /\ RefreshFailed(c)) => tokens = EmptyDict

\* C8 as stated: a call without a stored credential or with a failed refresh ends
\* with an error, and a call that returns normally returns a token.
C8_FailsWithAuthError ==
    \A c \in Callers :
        GvatDone(c) =>
            /\ (call[c].path = "empty" \/ RefreshFailed(c)) => call[c].raised
            /\ ~call[c].raised => call[c].ret.some

\* C8: get_valid_access_token raises no error: without a stored credential, and
\* when the refresh attempt raises (no refresh token, no answer, HTTP 4xx/5xx),
\* it returns None; on another non-200 answer it returns the cached access token.
C8_ReturnsNoneOnFailure ==
    \A c \in Callers :
        GvatDone(c) =>
            /\ ~call[c].raised
            /\ call[c].path = "empty" => call[c].ret = NoneVal
            /\ call[c].rres \in {"raised", "norefresh"} =>
                  call[c].ret = NoneVal /\ tokens = call[c].snap
            /\ call[c].rres = "ignored" => call[c].ret = AccessTokenOf(call[c].snap)

\* a call whose refresh request was refused has returned None
C8_RefusedRefreshReturnedNone ==
    \E c \in Callers :
        /\ GvatDone(c)
        /\ call[c].rres = "raised"
        /\ call[c].sent = 1
        /\ call[c].ret = NoneVal

\* C9: no submit or state request is sent with an access token that has expired.
C9_RequestsCarryValidToken ==
    (last_req.kind # "none" /\ session.expires_at.some) =>
        last_req.t < session.expires_at.v

\* C11: an OSError of update_iteration_count or of save_results does not leave
\* run_all_benchmarks: the only exception that reaches the caller is the one of
\* get_sas_tokens (or a KeyboardInterrupt).
C11_OnlyAuthPropagates == pc = "raised" => exc \in {"auth", "interrupt"}

\* the text of config/setup.sas with iteration count k
SetupTextWith(k) ==
    <<"x", "LF", "%let", " ", "iter", " ", "=", " ">> \o Str(k) \o <<";", "LF">>

\* C15 as stated: when update_iteration_count begins, config/setup.sas holds the
\* text it held when run_all_benchmarks was called.
C15_RestoredBeforeNextTrial ==
    pc = "update" => ReadText(setup_file) = ReadText(setup_at_call)

\* C15: config/setup.sas is not restored between trials: update_iteration_count
\* of trial k+1 begins on the file written for trial k, while the backup still
\* exists, and what it writes is the original text with the count of trial k+1.
C15_MutationFromPreviousTrial ==
    /\ (pc = "update" /\ trial > 1) =>
          /\ backup_file # NoFile
          /\ setup_file = WriteText(SetupTextWith(IterationCount(trial - 1)), linesep)
    /\ pc = "write" => setup_code = SetupTextWith(IterationCount(trial))
    /\ pc \in {"submit", "collect", "store", "save"} =>
          setup_file = WriteText(SetupTextWith(IterationCount(trial)), linesep)

\* the second trial's update_iteration_count has read the file of the first trial
C15_SecondMutation == pc = "write" /\ trial = 2 /\ backup_file # NoFile

\* C16: while the backup exists it holds the content config/setup.sas had when
\* run_all_benchmarks was called.
C16_BackupHoldsPreRunContent == backup_file # NoFile => backup_file = setup_at_call

\* C17: when the futures of a trial are collected, each backend has exactly one
\* task of this trial, three tasks were submitted per trial so far, and at no
\* time more than three driver tasks are in the pool or run on its threads.
C17_OneTaskPerBackend ==
    /\ pc \in {"collect", "store"} =>
          /\ \A e \in Envs : task[e].pc # "idle" /\ task[e].trial = trial
          /\ n_submitted = Len(Environments) * trial
    /\ pc \in {"submit", "collect", "store"} =>
          n_submitted = Len(Environments) * (trial - 1)
                        + Cardinality({e \in Envs : task[e].trial = trial})
    /\ Cardinality({e \in Envs : Active(task[e])}) <= MaxWorkers
    /\ Cardinality({e \in Envs : task[e].pc \in {"running", "polling", "proc"}}) <= MaxWorkers

\* the three tasks of the second trial run at once
C17_ThreeTasksRunning ==
    /\ trial = 2
    /\ n_submitted = 6
    /\ \A e \in Envs : task[e].pc \in {"polling", "proc"}

LastAnswer == plog[Len(plog)].st

\* C12: a poll loop that returns after the deadline has sent exactly one request
\* after the deadline and returns timed out, whatever that request observed.
C12_TimedOutAfterOneFinalPoll ==
    (pproc \in {"wait", "driver"} /\ ppc = "ret" /\ pclock >= PollDeadline) =>
        /\ pextra = 1
        /\ pret \in {Returned("empty", "none"), Returned("None", "timed_out")}

\* C13: a poll attempt does not end on a 404 while an endpoint pattern is left
\* to try.
C13_NotFoundTriesNextPattern ==
    (ppc = "ret" /\ plog # <<>> /\ LastAnswer = 404) => Len(plog) = Len(Endpoints)

\* C14: an answer that is neither 2xx nor 404 ends the poll with an error for
\* the caller: the state is not reported as unknown and the loop does not sleep
\* and poll again.
C14_ServerErrorSurfaced ==
    (plog # <<>> /\ LastAnswer = 500) => (ppc = "ret" /\ pret = Returned("None", "error"))

\* C18: the two remote drivers are never both about to write the client's
\* cached compute-context id.
C18_NoConcurrentWriters == ~(\A e \in Remote : cpc[e] = "write")

\* the contexts the resolution policy allows for a non-empty list: those whose
\* name equals, case-insensitively, the first preferred name that has a match,
\* or the first context when no preferred name has one
PolicyIds(items) ==
    LET matched == { p \in DOMAIN PreferredNames :
                        \E i \in DOMAIN items : Lower(items[i].name) = Lower(PreferredNames[p]) }
    IN  IF matched = {} THEN {items[1].id}
        ELSE { items[i].id : i \in { j \in DOMAIN items :
                   Lower(items[j].name) = Lower(PreferredNames[Least(matched)]) } }

\* C20: a context id resolved from a non-empty list is one the resolution policy
\* allows.
C20_PreferredContextChosen ==
    \A e \in CtxCallers :
        (cpc[e] = "done" /\ cres[e].some /\ contexts # <<>>) =>
            cres[e].v \in PolicyIds(Items(contexts))

\* C21: when the compute service lists no context, no submit_job call posts a
\* job-submission request: each of them raises.
C21_NoContextNoSubmission ==
    contexts = <<>> =>
        \A e \in CtxCallers : \A i \in DOMAIN csub[e] :
            /\ ~csub[e][i].posted
            /\ csub[e][i].raised

\* C22: the value run_base_local has returned for a run that timed out differs
\* from the value it returns for a run that failed.
C22_TimedOutDistinctFromFailed ==
    (task["BASE_LOCAL"].pc = "done" /\ task["BASE_LOCAL"].outcome = "timed_out") =>
        \A d \in 1..MaxElapsed : task["BASE_LOCAL"].ret # LocalReturn("failed", d)

\* C23 as stated: when the executable is not found, the call of the local driver
\* ends with an exception.
C23_NotFoundRaises ==
    (task["BASE_LOCAL"].pc = "done" /\ task["BASE_LOCAL"].outcome = "error") =>
        task["BASE_LOCAL"].raised

\* C23: when the executable is not found, the local driver returns None without
\* raising; the main thread has no exception from it, the trial's dict gets None
\* for BASE_LOCAL and, for each remote backend, what that backend's driver returned.
C23_NotFoundReturnsNone ==
    (task["BASE_LOCAL"].pc = "done" /\ task["BASE_LOCAL"].outcome = "error") =>
        /\ ~task["BASE_LOCAL"].raised
        /\ task["BASE_LOCAL"].ret = NoneVal
        /\ exc \in {"none", "interrupt"}
        /\ "BASE_LOCAL" \in DOMAIN times => times["BASE_LOCAL"] = NoneVal
        /\ pc = "store" =>
              \A e \in Remote :
                  /\ e \in DOMAIN times
                  /\ times[e] = task[e].ret
                  /\ task[e].outcome = "completed" => times[e].some

\* the trial is over with the executable not found and both remote results present
C23_TrialCompletedWithoutLocal ==
    /\ pc = "store"
    /\ task["BASE_LOCAL"].outcome = "error"
    /\ times["BASE_LOCAL"] = NoneVal
    /\ \A e \in Remote : times[e].some

\* C24: an elapsed time reported with a poll's result covers the time the
\* submission took and the time spent in the poll loop.
C24_ElapsedFromSubmission ==
    (ppc = "ret" /\ pelapsed.some) => pelapsed.v >= psub + pslept

\* C25: after update_iteration_count has written, config/setup.sas holds the string
\* it returned, which is the content the run started from with only the digits of
\* the iteration count replaced, and the setup code of a remote task is the
\* content the local SAS process read.
C25_ReturnedStringIsFileContent ==
    /\ pc \in {"submit", "collect", "store"} =>
          /\ setup_file = setup_code
          /\ setup_file = ReSub(setup_at_call, IterationCount(trial))
    /\ \A e \in Remote :
          (task[e].trial = trial /\ task["BASE_LOCAL"].trial = trial
              /\ task["BASE_LOCAL"].pc \in {"proc", "done"}
              /\ task["BASE_LOCAL"].outcome # "error") =>
              task[e].cfg = task["BASE_LOCAL"].cfg

\* C26: the k-th trial is the one of n_values[k] and writes the count 10**n_values[k];
\* the three result lists have the same length, the number of completed trials,
\* each trial appends the value collected for the environment, and a run that
\* returns without an exception leaves len(n_values) entries in each list.
C26_OneTrialPerEntry ==
    /\ \A e \in Envs : \A f \in Envs : Len(results[e]) = Len(results[f])
    /\ pc \in {"update", "write", "submit", "collect", "store"} =>
          /\ trial \in 1..Len(n_values)
          /\ \A e \in Envs : Len(results[e]) = trial - 1
    /\ pc = "write" =>
          /\ n_updates = trial
          /\ setup_code = SetupTextWith(Pow10(n_values[trial]))
    /\ pc = "save" =>
          \A e \in Envs :
              /\ Len(results[e]) = trial
              /\ results[e][trial] = DictGet(times, e)
    /\ (pc = "returned" /\ exc = "none") =>
          \A e \in Envs : Len(results[e]) = Len(n_values)

\* a run over [1, 0] has returned with two entries per environment
C26_TwoTrialsStored ==
    /\ pc = "returned"
    /\ exc = "none"
    /\ n_values = <<1, 0>>
    /\ \A e \in Envs : Len(results[e]) = 2

\* the backends that produced a result
Produced ==
    { aitems[i][1] : i \in { j \in DOMAIN aitems :
          IF aprog = "benchmark" THEN aitems[j][2] # NoneVal ELSE aitems[j][2].v > 0 } }
ElapsedOf(name) == aitems[CHOOSE i \in DOMAIN aitems : aitems[i][1] = name][2].v

\* C27: the backend named as fastest produced a result and no backend that produced
\* one has a smaller elapsed time; the percentage of each other backend that
\* produced a result is (other / fastest - 1) * 100. A fastest backend is named
\* whenever two or more backends produced a result.
C27_FastestIsMinimum ==
    apc = "done" =>
        /\ afastest.some <=> Cardinality(Produced) >= 2
        /\ afastest.some =>
              /\ afastest.name \in Produced
              /\ afastest.time = ElapsedOf(afastest.name)
              /\ \A e \in Produced : afastest.time <= ElapsedOf(e)
              /\ DOMAIN aslow = Produced \ {afastest.name}
              /\ \A e \in DOMAIN aslow :
                    FracEq(aslow[e],
                           Frac((ElapsedOf(e) - afastest.time) * 100, afastest.time))

\* the benchmark named a fastest backend that is not the first of the dict, one
\* backend has no result and the third is slower
C27_FastestAmongTwo ==
    /\ aprog = "benchmark"
    /\ apc = "done"
    /\ afastest.some
    /\ afastest.name # aitems[1][1]
    /\ Cardinality(Produced) = 2
    /\ \E e \in DOMAIN aslow : aslow[e].num > 0

\* C28: every poll (get_job_state, wait_for_job_completion, wait_for_completion,
\* the loop of run_casl_cas / run_base_viya) and the wait for the local SAS process
\* eventually return or raise, whatever the answers to the status requests are.
C28_PollsTerminate == <>(ppc = "ret")

\* wait_for_completion has raised TimeoutError after polls that never gave a
\* terminal state
C28_DeadlineEndsLoop ==
    /\ pproc = "wait_for_completion"
    /\ ppc = "ret"
    /\ pret = Returned("TimeoutError", "timed_out")
    /\ pslept >= 1
    /\ pclock >= PollDeadline

\* C29: get_sas_tokens has gone through authenticate exactly when load_tokens
\* loaded nothing or get_valid_access_token gave no token that is valid; otherwise
\* it has returned the tokens of the store.
C29_FallbackExactlyWhenNoValidToken ==
    gst.via # "none" =>
        (gst.via = "authenticate" <=> (~gst.loaded \/ ~gst.valid))

\* C30: on one client the contexts endpoint is queried at most once, whatever the
\* number and the interleaving of the submit_job calls, and every job-submission
\* request of the client carries the same context id.
C30_ContextsQueriedOnce ==
    /\ cqueries["CASL_CAS"] + cqueries["BASE_VIYA"] <= 1
    /\ cqueries["sas_auth"] <= 1
    /\ \A e \in Remote : \A f \in Remote :
          \A i \in DOMAIN csub[e] : \A j \in DOMAIN csub[f] :
              csub[e][i].ctx = csub[f][j].ctx
    /\ \A i \in DOMAIN csub["sas_auth"] : \A j \in DOMAIN csub["sas_auth"] :
          csub["sas_auth"][i].ctx = csub["sas_auth"][j].ctx

\* C31: the executable run_base_local has chosen is the first path of sas_paths, in
\* the order of the list, that exists; it is the bare command 'sas' exactly when
\* none of them exists.
C31_FirstExistingPathUsed ==
    (pproc = "run_base_local" /\ ppc \in {"proc", "ret"}) =>
        /\ sas_exe.some
        /\ sas_exe.v = "sas" <=> sas_present = {}
        /\ sas_exe.v # "sas" =>
              \E i \in DOMAIN sas_paths :
                  /\ sas_exe.v = sas_paths[i]
                  /\ sas_paths[i] \in sas_present
                  /\ \A j \in 1..(i - 1) : sas_paths[j] \notin sas_present

\* the second and the fourth candidate exist and the second has been chosen
C31_SecondOfTwoChosen ==
    /\ pproc = "run_base_local"
    /\ ppc = "ret"
    /\ sas_present = {sas_paths[2], sas_paths[4]}
    /\ sas_exe = Some(sas_paths[2])

\* C32: from the start of restore_setup_file on, no driver task is queued or
\* running, on the normal path and on every exception path of run_all_benchmarks.
C32_NoRestoreWhileRunning ==
    pc \in {"restore", "returned", "raised", "handled"} => \A e \in Envs : ~Active(task[e])

\* restore_setup_file is about to run after a KeyboardInterrupt that came while the
\* three tasks of a trial were submitted and the setup file carried the trial's count
C32_RestoreAfterInterrupt ==
    /\ pc = "restore"
    /\ exc = "interrupt"
    /\ n_submitted >= Len(Environments)
    /\ backup_file # NoFile
    /\ ReadText(setup_file) # ReadText(setup_at_call)

\* states that at least one of the poll loops stops on
SomeLoopStops == {js \in JobStates : LowerState(js) \in WaitTerminal \/ js \in DriverTerminal}

\* C33: the poll loops agree on the terminal states: no loop goes back to
\* sleep on a reported state that another loop stops on; in particular a job
\* reported as cancelled, in either spelling, never keeps a driver polling.
C33_LoopsAgreeOnTerminalStates ==
    (ppc = "sleep" /\ plog # <<>> /\ plog[Len(plog)].st = 200)
        => plog[Len(plog)].js \notin SomeLoopStops

\* C34: whatever the HTTP status of the submission, submit_job of sas_auth.py
\* hands back job data or raises: it never ends by returning None.
C34_SubmitReturnsJobOrRaises ==
    ~(pproc = "wait" /\ ppc = "ret" /\ pret = Returned("None", "submit"))

\* C35: whatever the HTTP status of the authorization-code exchange,
\* authenticate, and get_sas_tokens through it, either raises or returns a
\* token set that contains access_token: no empty or token-less credential
\* comes back.
C35_AuthenticateReturnsTokenOrRaises ==
    (gst.via = "authenticate" /\ ~gst.raised) => "access_token" \in DOMAIN tokens

\* C36: a successful refresh leaves a cached expiry of now + expires_in, so
\* that a get_valid_access_token call made right after it, at the same time,
\* would not ask for another refresh.
C36_NoRefreshRightAfterRefresh ==
    \A c \in Callers :
        (GvatDone(c) /\ call[c].rres = "ok" /\ now = call[c].t1) =>
            /\ "expires_in" \in DOMAIN call[c].resp
            /\ "expires_at" \in DOMAIN tokens
            /\ tokens["expires_at"] = now + call[c].resp["expires_in"]
            /\ GvatCheck(tokens, now) # "refresh"

\* C37: a call that returns a token without a refresh attempt found a cached
\* credential that carries an expires_at more than 5 minutes ahead; a credential
\* without expires_at is never handed out unrefreshed.
C37_UnrefreshedTokenIsValid ==
    \A c \in Callers :
        (GvatDone(c) /\ call[c].ret.some /\ call[c].rres = "none") => FreshAtEntry(c)

\* C38: update_iteration_count is last-write-wins and idempotent: when the
\* update of a trial has returned, config/setup.sas is what one update with
\* that trial's count makes of the file the run started from, whatever the
\* earlier trials wrote, and the same update applied again changes nothing.
C38_LastWriteWins ==
    (pc = "submit" /\ n_updates >= 1) =>
        /\ setup_file = UpdatedFile(setup_at_call, IterationCount(trial), linesep)
        /\ UpdatedFile(setup_file, IterationCount(trial), linesep) = setup_file

\* the second trial's update has returned, after a first trial with another count
C38_SecondUpdateWritten ==
    /\ pc = "submit"
    /\ trial = 2
    /\ n_updates = 2
    /\ IterationCount(1) # IterationCount(2)
    /\ setup_file # UpdatedFile(setup_at_call, IterationCount(1), linesep)

\* a call of restore_setup_file returns, or main's handler is done
RestoreStep == pc \in {"restore", "raised"} /\ pc' # pc

\* C39: restore_setup_file consumes the backup and is idempotent: when a call
\* returns no backup exists any more, and a call made while no backup exists,
\* as the one of main's exception handler after the finally block, leaves
\* config/setup.sas as it is.
C39_RestoreConsumesBackup ==
    [][RestoreStep =>
          /\ backup_file' = NoFile
          /\ backup_file = NoFile => setup_file' = setup_file]_vars

\* main's handler has run after an update failed: the backup was restored by
\* the finally block and is gone
C39_HandledAfterRestore ==
    /\ pc = "handled"
    /\ exc = "io"
    /\ n_updates >= 1
    /\ backup_file = NoFile
    /\ ReadText(setup_file) = ReadText(setup_at_call)

====
